---- MODULE Spec2Model ----
(***************************************************************************)
(* Network discovery scanner of rackd (internal/scanner).                  *)
(*                                                                         *)
(* Texts (subnets, exclusion entries, addresses) are TLA+ strings, parsed  *)
(* character by character the way net.ParseCIDR / net.ParseIP do, for the  *)
(* dotted-decimal and the IPv6 grammar.  An address is a sequence of 4 or  *)
(* 16 bytes (net.IP); the nil IP is the empty sequence.                    *)
(***************************************************************************)
EXTENDS Integers, Sequences, FiniteSets, TLC

VARIABLES
    networkID,     \* argument of ScanNetwork
    rule,          \* argument of ScanNetwork: the DiscoveryRule
    env,           \* what the outside world may answer during this run
    orch,          \* position of the ScanNetwork goroutine
    ret,           \* return value of ScanNetwork: "none" (still running), "nil", "error"
    scan,          \* the DiscoveryScan record
    updates,       \* the records handed to updateFunc, in call order
    subnet,        \* network.Subnet
    ipNet,         \* generateIPList: the parsed block
    ip,            \* generateIPList: the loop cursor
    ips,           \* generateIPList: the list built so far
    tasks,         \* the host goroutines started so far, in spawn order
    sem,           \* number of tokens in the semaphore channel
    wg,            \* WaitGroup counter
    foundCount,    \* ScanNetwork local
    scannedCount,  \* ScanNetwork local
    scanHostCalls, \* addresses scanHost was called for
    upsertCalls,   \* addresses CreateOrUpdateDiscoveredDevice was called for
    mu,            \* the mutex of ScanNetwork: 0 (free) or the goroutine holding it
    query,         \* a single isExcluded call: its arguments and result
    hostCall,      \* a single scanHost call: its arguments and result
    portScan       \* a single ScanPorts call: its goroutines and result

vars == <<networkID, rule, env, orch, ret, scan, updates, subnet, ipNet, ip, ips,
          tasks, sem, wg, foundCount, scannedCount, scanHostCalls, upsertCalls, mu,
          query, hostCall, portScan>>

(***************************************************************************)
(* Bytes and bit masks                                                     *)
(***************************************************************************)
IPv4len == 4

RECURSIVE Pow2(_)
Pow2(n) == IF n = 0 THEN 1 ELSE 2 * Pow2(n - 1)

\* Number of host (zero) bits in byte i (1..4, or 1..16 for a 16-byte mask) of
\* the mask of a /ones prefix.
MaskHostBits(ones, i) ==
    LET setBits == IF ones >= 8 * i THEN 8
                   ELSE IF ones <= 8 * (i - 1) THEN 0
                   ELSE ones - 8 * (i - 1)
    IN  8 - setBits

\* b & mask[i]
AndMask(b, ones, i) == b - (b % Pow2(MaskHostBits(ones, i)))

\* b | ^mask[i]
OrNotMask(b, ones, i) ==
    LET low == Pow2(MaskHostBits(ones, i))
    IN  b - (b % low) + (low - 1)

\* IP.Mask(mask): a fresh slice, byte-wise AND.
Mask(addr, ones) == [i \in 1..Len(addr) |-> AndMask(addr[i], ones, i)]

(***************************************************************************)
(* Text <-> address conversions                                            *)
(***************************************************************************)
\* The element of a one-element set.  A value bound by  x \in {e}  is computed
\* once, however often x is used.
Only(S) == CHOOSE x \in S : TRUE

Digits == <<"0", "1", "2", "3", "4", "5", "6", "7", "8", "9">>

IsDigit(c) == \E d \in 1..10 : Digits[d] = c

DigitVal(c) == (CHOOSE d \in 1..10 : Digits[d] = c) - 1

CharAt(s, i) == SubSeq(s, i, i)

\* The positions of character c in s.
Positions(s, c) == {i \in 1..Len(s) : CharAt(s, i) = c}

\* Index of the first occurrence of character c in s at or after i; 0 if none.
IndexFrom(s, c, i) ==
    LET hits == {j \in Positions(s, c) : j >= i}
    IN  IF hits = {} THEN 0 ELSE CHOOSE j \in hits : \A k \in hits : j <= k

AllDigits(s) == \A i \in 1..Len(s) : IsDigit(CharAt(s, i))

\* The value of a text of at most three decimal digits.
DecVal(s) ==
    CASE Len(s) = 1 -> DigitVal(CharAt(s, 1))
      [] Len(s) = 2 -> 10 * DigitVal(CharAt(s, 1)) + DigitVal(CharAt(s, 2))
      [] Len(s) = 3 -> 100 * DigitVal(CharAt(s, 1)) + 10 * DigitVal(CharAt(s, 2))
                          + DigitVal(CharAt(s, 3))
      [] OTHER      -> 0

\* One dotted-decimal field: 1..3 digits, no leading zero, value <= 255.
\* Result: the value, or -1.
ParseOctet(s) ==
    IF Len(s) = 0 \/ Len(s) > 3 \/ ~AllDigits(s) THEN -1
    ELSE IF Len(s) > 1 /\ CharAt(s, 1) = "0" THEN -1
    ELSE IF DecVal(s) > 255 THEN -1
    ELSE DecVal(s)

\* The fields of s between dots: field k runs from after the (k-1)-th dot to
\* before the k-th dot.
SplitDots(s) ==
    Only({ [k \in 1..(Cardinality(dots) + 1) |->
               LET from == IF k = 1 THEN 1
                           ELSE 1 + CHOOSE i \in dots : Cardinality({j \in dots : j <= i}) = k - 1
                   to   == IF k > Cardinality(dots) THEN Len(s)
                           ELSE (CHOOSE i \in dots : Cardinality({j \in dots : j <= i}) = k) - 1
               IN  SubSeq(s, from, to)]
           : dots \in {Positions(s, ".")} })

\* parseIPv4Fields: four dotted-decimal fields; the 4 bytes, or <<>>.
ParseIPv4(s) ==
    Only({ IF Len(f) = IPv4len /\ \A i \in 1..IPv4len : ParseOctet(f[i]) >= 0
           THEN [i \in 1..IPv4len |-> ParseOctet(f[i])]
           ELSE <<>>
           : f \in {SplitDots(s)} })

\* The value of a hexadecimal digit of either case; -1 for any other character.
HexVal(c) ==
    LET lower == Positions("0123456789abcdef", c)
        upper == Positions("0123456789ABCDEF", c)
    IN  IF lower # {} THEN Only(lower) - 1
        ELSE IF upper # {} THEN Only(upper) - 1
        ELSE -1

\* The number of hexadecimal digits s starts with.
HexRun(s) ==
    LET others == {j \in 1..Len(s) : HexVal(CharAt(s, j)) < 0}
    IN  IF others = {} THEN Len(s)
        ELSE (CHOOSE j \in others : \A k \in others : j <= k) - 1

\* The value of a text of hexadecimal digits.
RECURSIVE HexNum(_)
HexNum(s) ==
    IF Len(s) = 0 THEN 0
    ELSE 16 * HexNum(SubSeq(s, 1, Len(s) - 1)) + HexVal(CharAt(s, Len(s)))

NoGroups == [ok |-> FALSE]

\* The loop of parseIPv6, from the start of one group on: s is the text not
\* read yet (never empty here), acc the bytes filled so far, e the number of
\* bytes before the "::" (-1 while there is none).  A group is 1..4
\* hexadecimal digits; a group followed by a dot starts the embedded
\* dotted-decimal form, which takes the rest of the text and must fill the
\* last 4 bytes.  Result: the bytes and e once the text is used up, or
\* NoGroups.
RECURSIVE ParseIPv6Groups(_, _, _)
ParseIPv6Groups(s, acc, e) ==
    IF Len(acc) >= 16 THEN NoGroups
    ELSE Only({
        IF off = 0 \/ off > 4 THEN NoGroups
        ELSE IF off < Len(s) /\ CharAt(s, off + 1) = "."
        THEN Only({ IF (e < 0 /\ Len(acc) # 12) \/ Len(acc) + 4 > 16 \/ v4 = <<>>
                    THEN NoGroups
                    ELSE [ok |-> TRUE, ip |-> acc \o v4, e |-> e]
                    : v4 \in {ParseIPv4(s)} })
        ELSE Only({
            IF off = Len(s) THEN [ok |-> TRUE, ip |-> acc2, e |-> e]
            ELSE IF CharAt(s, off + 1) # ":" \/ Len(s) = off + 1 THEN NoGroups
            ELSE IF CharAt(s, off + 2) = ":"
            THEN IF e >= 0 THEN NoGroups
                 ELSE IF Len(s) = off + 2 THEN [ok |-> TRUE, ip |-> acc2, e |-> Len(acc2)]
                 ELSE ParseIPv6Groups(SubSeq(s, off + 3, Len(s)), acc2, Len(acc2))
            ELSE ParseIPv6Groups(SubSeq(s, off + 2, Len(s)), acc2, e)
            : acc2 \in { acc \o << HexNum(SubSeq(s, 1, off)) \div 256,
                                   HexNum(SubSeq(s, 1, off)) % 256 >> } })
        : off \in {HexRun(s)} })

\* parseIPv6 as net.ParseIP and net.ParseCIDR use it: the 16 bytes, or <<>>.
\* A text with a zone ("%") is refused; a leading "::" may be the whole
\* text; fewer than 16 bytes need a "::", which is filled with zero bytes,
\* and 16 bytes allow none.
ParseIPv6(s) ==
    IF Positions(s, "%") # {} THEN <<>>
    ELSE Only({
        IF lead /\ Len(s) = 2 THEN [k \in 1..16 |-> 0]
        ELSE Only({
            IF ~g.ok THEN <<>>
            ELSE IF Len(g.ip) < 16
            THEN IF g.e < 0 THEN <<>>
                 ELSE [k \in 1..16 |->
                          IF k <= g.e THEN g.ip[k]
                          ELSE IF k <= g.e + (16 - Len(g.ip)) THEN 0
                          ELSE g.ip[k - (16 - Len(g.ip))]]
            ELSE IF g.e >= 0 THEN <<>>
            ELSE g.ip
            : g \in { IF lead THEN ParseIPv6Groups(SubSeq(s, 3, Len(s)), <<>>, 0)
                      ELSE ParseIPv6Groups(s, <<>>, -1) } })
        : lead \in {Len(s) >= 2 /\ SubSeq(s, 1, 2) = "::"} })

\* netip.ParseAddr: the first of ".", ":" and "%" in the text decides the
\* grammar.  Result: 4 bytes (dotted decimal), 16 bytes (IPv6 text), or <<>>.
ParseAddr(s) ==
    Only({ IF marks = {} THEN <<>>
           ELSE Only({ IF c = "." THEN ParseIPv4(s)
                       ELSE IF c = ":" THEN ParseIPv6(s)
                       ELSE <<>>
                       : c \in {CharAt(s, CHOOSE j \in marks : \A k \in marks : j <= k)} })
           : marks \in {Positions(s, ".") \cup Positions(s, ":") \cup Positions(s, "%")} })

\* IP.To4: a 4-byte address as it is, the last 4 bytes of an IPv4-mapped
\* 16-byte address (::ffff:a.b.c.d), else <<>> (nil).
To4(addr) ==
    IF Len(addr) = IPv4len THEN addr
    ELSE IF /\ Len(addr) = 16
            /\ \A i \in 1..10 : addr[i] = 0
            /\ addr[11] = 255
            /\ addr[12] = 255
    THEN SubSeq(addr, 13, 16)
    ELSE <<>>

\* "if x := ip.To4(); x != nil { ip = x }"
Shortest(addr) == IF To4(addr) # <<>> THEN To4(addr) ELSE addr

\* net.ParseIP: the address of the text, or <<>> (nil).  net.ParseIP returns
\* every address as 16 bytes; Contains, Equal and String, the only
\* operations the scanner applies to one, all start from its To4 form, which
\* is the form kept here: 4 bytes for an IPv4 or IPv4-mapped address.
ParseIP(s) == Shortest(ParseAddr(s))

\* dtoi from position i on, n being the value read so far: -1 once the value
\* reaches 0xFFFFFF.
RECURSIVE dtoi(_, _, _)
dtoi(s, i, n) ==
    IF i > Len(s) THEN n
    ELSE Only({ IF m >= 16777215 THEN -1 ELSE dtoi(s, i + 1, m)
                : m \in {10 * n + DigitVal(CharAt(s, i))} })

\* The prefix length of a CIDR text for an address of the given number of
\* bits: decimal digits only, at least one, leading zeros allowed, at most
\* bits.  Result: the length, or -1.
ParsePrefixLen(s, bits) ==
    IF Len(s) = 0 \/ ~AllDigits(s) THEN -1
    ELSE Only({ IF n > bits THEN -1 ELSE n : n \in {dtoi(s, 1, 0)} })

NoNet == [ok |-> FALSE, IP |-> <<>>, ones |-> 0]

\* net.ParseCIDR: [ok, IP (the masked network number), ones].  The mask has
\* as many bytes as IP: 4 for dotted-decimal text, 16 for IPv6 text (also
\* when the address is IPv4-mapped).
ParseCIDR(s) ==
    Only({ IF slash = 0 THEN NoNet
           ELSE Only({ IF a = <<>> THEN NoNet
                       ELSE Only({ IF n < 0 THEN NoNet
                                   ELSE [ok |-> TRUE, IP |-> Mask(a, n), ones |-> n]
                                   : n \in {ParsePrefixLen(SubSeq(s, slash + 1, Len(s)),
                                                           8 * Len(a))} })
                       : a \in {ParseAddr(SubSeq(s, 1, slash - 1))} })
           : slash \in {IndexFrom(s, "/", 1)} })

\* IPNet.Contains: network number and address are compared in their To4
\* form when they have one; a 16-byte mask is then used from its 13th byte
\* on (networkNumberAndMask).
Contains(blk, addr) ==
    \E nn \in {Shortest(blk.IP)}, a \in {Shortest(addr)} :
        /\ Len(a) = Len(nn)
        /\ \A i \in 1..Len(a) :
              AndMask(nn[i], blk.ones, Len(blk.IP) - Len(nn) + i)
                  = AndMask(a[i], blk.ones, Len(blk.IP) - Len(nn) + i)

\* Every value the cursor can take belongs to the block: the block is a
\* 4-byte one and every byte of its mask is zero (255 & mask[i] = 0), so the
\* byte comparison of Contains holds whatever inc makes of the cursor.
ContainsEverything(blk) ==
    /\ Len(blk.IP) = IPv4len
    /\ { i \in 1..IPv4len : AndMask(255, blk.ones, i) # 0 } = {}

\* appendHex: lower-case hexadecimal without leading zeros.
RECURSIVE HexText(_)
HexText(v) ==
    IF v < 16 THEN CharAt("0123456789abcdef", v + 1)
    ELSE HexText(v \div 16) \o CharAt("0123456789abcdef", (v % 16) + 1)

\* The 16-bit groups from..to (0..7) of a 16-byte address, joined by colons.
RECURSIVE JoinGroups(_, _, _)
JoinGroups(addr, from, to) ==
    IF from > to THEN ""
    ELSE HexText(256 * addr[2 * from + 1] + addr[2 * from + 2])
             \o (IF from < to THEN ":" ELSE "")
             \o JoinGroups(addr, from + 1, to)

\* IP.String: dotted decimal for an address with a To4 form; else the eight
\* groups in hexadecimal, the first longest run of two or more zero groups
\* written as "::".
IPString(addr) ==
    Only({ IF Len(a) = IPv4len
           THEN ToString(a[1]) \o "." \o ToString(a[2]) \o "." \o
                ToString(a[3]) \o "." \o ToString(a[4])
           ELSE IF Len(a) # 16 THEN "<nil>"
           ELSE LET zeros(k) ==
                        LET used == {j \in k..7 : a[2 * j + 1] # 0 \/ a[2 * j + 2] # 0}
                        IN  (IF used = {} THEN 8
                             ELSE CHOOSE j \in used : \A m \in used : j <= m) - k
                    longest == CHOOSE n \in {zeros(k) : k \in 0..7} :
                                   \A k \in 0..7 : zeros(k) <= n
                    zeroStart == CHOOSE k \in 0..7 :
                                     /\ zeros(k) = longest
                                     /\ \A j \in 0..(k - 1) : zeros(j) < longest
                IN  IF longest < 2 THEN JoinGroups(a, 0, 7)
                    ELSE JoinGroups(a, 0, zeroStart - 1) \o "::"
                             \o JoinGroups(a, zeroStart + longest, 7)
           : a \in {Shortest(addr)} })

(***************************************************************************)
(* IP range enumerator                                                     *)
(***************************************************************************)
\* inc: byte-wise increment from the last byte, carrying while a byte wraps to 0.
RECURSIVE IncFrom(_, _)
IncFrom(addr, j) ==
    IF j = 0 THEN addr
    ELSE LET b == (addr[j] + 1) % 256
         IN  IF b > 0 THEN [addr EXCEPT ![j] = b]
             ELSE IncFrom([addr EXCEPT ![j] = b], j - 1)

inc(addr) == IncFrom(addr, Len(addr))

\* SkipsEndpoints with the comparison off by one: a /31 loses both addresses.
SkipsEndpointsUpTo31(ones) == ones <= 31

\* The prefix lengths for which network and broadcast address are skipped.
SkipsEndpoints(ones) == ones <= 30

\* network | ^mask
Broadcast(blk) == [i \in 1..Len(blk.IP) |-> OrNotMask(blk.IP[i], blk.ones, i)]

\* One iteration of the enumeration loop's body: the list after visiting addr.
GenLoopBody(blk, addr, acc) ==
    IF SkipsEndpoints(blk.ones) /\ addr = blk.IP THEN acc
    ELSE IF SkipsEndpoints(blk.ones) /\ addr = Broadcast(blk) THEN acc
    ELSE Append(acc, IPString(addr))

(***************************************************************************)
(* Exclusion matcher                                                       *)
(***************************************************************************)
\* ExclMatches without the literal comparison of line 304.
ExclMatchesCIDROnly(excl, addr) ==
    \E exclNet \in {ParseCIDR(excl)} :
        exclNet.ok /\ Contains(exclNet, ParseIP(addr))

\* One exclusion entry against addr, as the loop body tests it: the address
\* is parsed only when the entry is a CIDR block.
ExclMatches(excl, addr) ==
    \E exclNet \in {ParseCIDR(excl)} :
        IF exclNet.ok /\ Contains(exclNet, ParseIP(addr)) THEN TRUE
        ELSE excl = addr

\* isExcluded for a scanner that ignores the exclusion list.
NeverExcluded(addr, excludeList) == FALSE

RECURSIVE isExcluded(_, _)
isExcluded(addr, excludeList) ==
    IF excludeList = <<>> THEN FALSE
    ELSE IF ExclMatches(Head(excludeList), addr) THEN TRUE
    ELSE isExcluded(addr, Tail(excludeList))

(***************************************************************************)
(* Reachability prober (ping.go)                                           *)
(***************************************************************************)
\* Ping for a scanner that probes whether or not it is privileged.
PingIgnoresPrivilege(privileged, h) ==
    IF h.ping = "error" THEN [alive |-> FALSE, err |-> TRUE]
    ELSE [alive |-> h.ping = "reply", err |-> FALSE]

\* Ping: what the host answers is h.ping ("reply", "silent", or "error" when
\* the pinger cannot be created); an unprivileged scanner does not probe.
Ping(privileged, h) ==
    IF ~privileged THEN [alive |-> FALSE, err |-> FALSE]
    ELSE IF h.ping = "error" THEN [alive |-> FALSE, err |-> TRUE]
    ELSE [alive |-> h.ping = "reply", err |-> FALSE]

(***************************************************************************)
(* Port prober                                                             *)
(***************************************************************************)
CommonPorts == <<21, 22, 23, 25, 53, 80, 110, 111, 135, 139,
                 143, 443, 445, 993, 995, 1723, 3306, 3389, 5900, 8080>>

\* getPortsToScan for a prober whose "full" policy honours the custom list.
getPortsToScanFullCustom(r) ==
    IF ~r.ScanPorts THEN <<>>
    ELSE IF r.PortScanType \in {"custom", "full"} /\ Len(r.CustomPorts) > 0
    THEN r.CustomPorts
    ELSE CommonPorts

getPortsToScan(r) ==
    IF ~r.ScanPorts THEN <<>>
    ELSE IF r.PortScanType = "custom" /\ Len(r.CustomPorts) > 0 THEN r.CustomPorts
    ELSE CommonPorts

\* ScanPorts: the candidate ports whose connection attempt succeeds (h.open
\* are the ports the host accepts connections on).  The order of the result
\* depends on the order in which the attempts finish; it is kept as a set.
ScanPorts(r, h) ==
    LET ports == getPortsToScan(r)
    IN  {ports[i] : i \in {j \in 1..Len(ports) : ports[j] \in h.open}}

(***************************************************************************)
(* Link-layer and name lookups                                             *)
(***************************************************************************)
\* GetMAC: h.arp is "error" when arping fails, else the address text.
GetMAC(h) ==
    IF h.arp = "error" THEN [mac |-> "", err |-> TRUE]
    ELSE [mac |-> h.arp, err |-> FALSE]

\* getHostname: the first name of the reverse lookup; "" with the lookup's
\* error (possibly nil) when it fails or yields no name.
getHostname(h) ==
    IF h.dns.err \/ Len(h.dns.names) = 0 THEN [name |-> "", err |-> h.dns.err]
    ELSE [name |-> h.dns.names[1], err |-> FALSE]

(***************************************************************************)
(* Service prober (service.go)                                             *)
(***************************************************************************)
ServiceProbes ==
    (21 :> "FTP") @@ (22 :> "SSH") @@ (23 :> "Telnet") @@ (25 :> "SMTP") @@
    (53 :> "DNS") @@ (80 :> "HTTP") @@ (110 :> "POP3") @@ (143 :> "IMAP") @@
    (443 :> "HTTPS") @@ (3306 :> "MySQL") @@ (3389 :> "RDP") @@
    (5432 :> "PostgreSQL") @@ (5900 :> "VNC") @@ (6379 :> "Redis") @@
    (8080 :> "HTTP-Alt") @@ (27017 :> "MongoDB")

\* The letters unicode.ToUpper changes, in code point order: a..z, then the
\* letters outside ASCII that have a simple upper-case mapping in the Unicode
\* character database (Latin, Greek, Cyrillic, Armenian, Georgian, Cherokee
\* and the letter-like forms), as far as a string of this module can hold
\* the letter and its upper-case form.
LowerLetters ==
    "abcdefghijklmnopqrstuvwxyzµàáâãäåæçèéêëìíîïðñòóô" \o
    "õöøùúûüýþƃƅƈƌƒƕƙơƣƥƨƭưƴƶƹƽƿǅǆǈǉǋǌǎǐǒǔǖǘǚǜǝǟǡǣǥǧǩ" \o
    "ǫǭǯǲǳǵǹǻǽǿʀʂʃʇʈʊʋʒʝʞάέήίαβγδεζηθικλμνξοπρςστυφχψ" \o
    "ωϊϋόύώϐϑϕϖϗϙϛϝϟϡϣϥϧϩϫϭϯϰϱϲϵϸϻҁҋҍҏґғҕҗҙқҝҟҡңҥҧҩҫҭ" \o
    "үұҳҵҷҹһҽҿӂӄӆӈӊӌӎӏӑӓӕӗәӛӝӟӡӣӥӧөӫӭӯӱӳӵӷӹӻӽӿაბგდევზ" \o
    "თიკლმნოპჟრსტუფქღყშჩცძწჭხჯჰჱჲჳჴჵჶჷჸჹჺჽჾჿᏸᏹᏺᏻᏼᏽᶎẁẃ" \o
    "ẅẇẉẋẍẏẑẓẕạảấầẩẫậắằẳẵặẹẻẽếềểễệỉịọỏốồổỗộớờởỡợụủứừử" \o
    "ữựỳỵỷỹỻỽỿᾀᾁᾂᾃᾄᾅᾆᾇᾐᾑᾒᾓᾔᾕᾖᾗᾠᾡᾢᾣᾤᾥᾦᾧᾰᾱᾳιῃῐῑῠῡῥῳↄⓐⓑⓒ" \o
    "ⓓⓔⓕⓖⓗⓘⓙⓚⓛⓜⓝⓞⓟⓠⓡⓢⓣⓤⓥⓦⓧⓨⓩⲁⲃⲅⲇⲉⲋⲍⲏⲑⲓⲕⲗⲙⲛⲝⲟⲡⲣⲥⲧⲩⲫⲭⲯⲱ" \o
    "ⲳⲵⲷⲹⲻⲽⲿⳁⳃⳅⳇⳉⳋⳍⳏⳑⳓⳕⳗⳙⳛⳝⳟⳡⳣⳬⳮⳳꚁꚃꚅꚇꚉꚋꚍꚏꚑꚓꚕꚗꚙꚛꞁꞃꞅꞇꞌꞑ" \o
    "ꞓꞔꞗꞙꞛꞝꞟꞡꞣꞥꞧꞩꞵꞷꞹꞻꞽꞿꟁꟃꟈꟊꟑꟗꟙꟶꮀꮁꮂꮃꮄꮅꮆꮇꮈꮉꮊꮋꮌꮍꮎꮏꮐꮑꮒꮓꮔꮕ" \o
    "ꮖꮗꮘꮙꮚꮛꮜꮝꮞꮟꮠꮡꮢꮣꮤꮥꮦꮧꮨꮩꮪꮫꮬꮭꮮꮯꮰꮱꮲꮳꮴꮵꮶꮷꮸꮹꮺꮻꮼꮽꮾꮿ"

\* The upper-case form of each letter of LowerLetters, position by position.
UpperLetters ==
    "ABCDEFGHIJKLMNOPQRSTUVWXYZΜÀÁÂÃÄÅÆÇÈÉÊËÌÍÎÏÐÑÒÓÔ" \o
    "ÕÖØÙÚÛÜÝÞƂƄƇƋƑǶƘƠƢƤƧƬƯƳƵƸƼǷǄǄǇǇǊǊǍǏǑǓǕǗǙǛƎǞǠǢǤǦǨ" \o
    "ǪǬǮǱǱǴǸǺǼǾƦꟅƩꞱƮƱƲƷꞲꞰΆΈΉΊΑΒΓΔΕΖΗΘΙΚΛΜΝΞΟΠΡΣΣΤΥΦΧΨ" \o
    "ΩΪΫΌΎΏΒΘΦΠϏϘϚϜϞϠϢϤϦϨϪϬϮΚΡϹΕϷϺҀҊҌҎҐҒҔҖҘҚҜҞҠҢҤҦҨҪҬ" \o
    "ҮҰҲҴҶҸҺҼҾӁӃӅӇӉӋӍӀӐӒӔӖӘӚӜӞӠӢӤӦӨӪӬӮӰӲӴӶӸӺӼӾᲐᲑᲒᲓᲔᲕᲖ" \o
    "ᲗᲘᲙᲚᲛᲜᲝᲞᲟᲠᲡᲢᲣᲤᲥᲦᲧᲨᲩᲪᲫᲬᲭᲮᲯᲰᲱᲲᲳᲴᲵᲶᲷᲸᲹᲺᲽᲾᲿᏰᏱᏲᏳᏴᏵꟆẀẂ" \o
    "ẄẆẈẊẌẎẐẒẔẠẢẤẦẨẪẬẮẰẲẴẶẸẺẼẾỀỂỄỆỈỊỌỎỐỒỔỖỘỚỜỞỠỢỤỦỨỪỬ" \o
    "ỮỰỲỴỶỸỺỼỾᾈᾉᾊᾋᾌᾍᾎᾏᾘᾙᾚᾛᾜᾝᾞᾟᾨᾩᾪᾫᾬᾭᾮᾯᾸᾹᾼΙῌῘῙῨῩῬῼↃⒶⒷⒸ" \o
    "ⒹⒺⒻⒼⒽⒾⒿⓀⓁⓂⓃⓄⓅⓆⓇⓈⓉⓊⓋⓌⓍⓎⓏⲀⲂⲄⲆⲈⲊⲌⲎⲐⲒⲔⲖⲘⲚⲜⲞⲠⲢⲤⲦⲨⲪⲬⲮⲰ" \o
    "ⲲⲴⲶⲸⲺⲼⲾⳀⳂⳄⳆⳈⳊⳌⳎⳐⳒⳔⳖⳘⳚⳜⳞⳠⳢⳫⳭⳲꚀꚂꚄꚆꚈꚊꚌꚎꚐꚒꚔꚖꚘꚚꞀꞂꞄꞆꞋꞐ" \o
    "ꞒꟄꞖꞘꞚꞜꞞꞠꞢꞤꞦꞨꞴꞶꞸꞺꞼꞾꟀꟂꟇꟉꟐꟖꟘꟵᎰᎱᎲᎳᎴᎵᎶᎷᎸᎹᎺᎻᎼᎽᎾᎿᏀᏁᏂᏃᏄᏅ" \o
    "ᏆᏇᏈᏉᏊᏋᏌᏍᏎᏏᏐᏑᏒᏓᏔᏕᏖᏗᏘᏙᏚᏛᏜᏝᏞᏟᏠᏡᏢᏣᏤᏥᏦᏧᏨᏩᏪᏫᏬᏭᏮᏯ"

\* The letters whose upper-case form is a character no string of this module
\* can hold (U+00FF -> U+0178, U+0180 -> U+0243, ..., U+1E9B -> U+1E60).
\* ToUpper is not defined on a text that holds one of them.
NoUpperForm ==
    "ÿƀƚƞʉʌϳրցւփքօֆᲀᲁᲂᲃᲄᲅᲆᲇᲈẛ"

\* unicode.ToUpper on the letters it changes.
UpperOf ==
    [c \in {CharAt(LowerLetters, i) : i \in 1..Len(LowerLetters)} |->
        CharAt(UpperLetters, Only(Positions(LowerLetters, c)))]

\* unicode.ToUpper: every other character is its own upper-case form.
UpperChar(c) ==
    CASE c \in DOMAIN UpperOf               -> UpperOf[c]
      [] Positions(NoUpperForm, c) = {}     -> c

\* strings.ToUpper (line 105): the text with every character replaced by
\* its upper-case form.
RECURSIVE ToUpperFrom(_, _)
ToUpperFrom(s, i) ==
    IF i > Len(s) THEN "" ELSE UpperChar(CharAt(s, i)) \o ToUpperFrom(s, i + 1)

ToUpper(s) == ToUpperFrom(s, 1)

\* strings.Contains
StrContains(s, sub) ==
    \E i \in 1..(Len(s) - Len(sub) + 1) : SubSeq(s, i, i + Len(sub) - 1) = sub

\* unicode.IsSpace, which strings.TrimSpace and strings.Fields use.  In
\* order: tab, line feed, vertical tab (U+000B), form feed, carriage return,
\* space, next line (U+0085), no-break space (U+00A0), ogham space mark
\* (U+1680).  The remaining white space of Unicode (U+2000..U+200A, U+2028,
\* U+2029, U+202F, U+205F, U+3000) cannot be written in a string of this
\* module, so no text of the model holds it.
IsSpace(c) == c \in {"\t", "\n", "", "\f", "\r", " ", "", " ", " "}

\* The positions of s that hold a character other than white space.
Inked(s) == {i \in 1..Len(s) : ~IsSpace(CharAt(s, i))}

MinOf(S) == CHOOSE x \in S : \A y \in S : x <= y

MaxOf(S) == CHOOSE x \in S : \A y \in S : x >= y

\* strings.TrimSpace
TrimSpace(s) ==
    Only({ IF ink = {} THEN "" ELSE SubSeq(s, MinOf(ink), MaxOf(ink)) : ink \in {Inked(s)} })

\* strings.Fields: the maximal runs of characters other than white space.
Fields(s) ==
    LET ink    == Inked(s)
        starts == {i \in ink : (i - 1) \notin ink}
        ends   == {i \in ink : (i + 1) \notin ink}
        word(a) == SubSeq(s, a, MinOf({e \in ends : e >= a}))
    IN  [k \in 1..Cardinality(starts) |->
            word(CHOOSE a \in starts : Cardinality({b \in starts : b <= a}) = k)]

\* parseService: the service the banner names, else the port's table entry.
parseService(banner, port) ==
    Only({ IF StrContains(bannerUpper, "SSH") THEN "SSH"
           ELSE IF StrContains(bannerUpper, "FTP") THEN "FTP"
           ELSE IF StrContains(bannerUpper, "HTTP") THEN "HTTP"
           ELSE IF StrContains(bannerUpper, "SMTP") THEN "SMTP"
           ELSE IF StrContains(bannerUpper, "MYSQL") THEN "MySQL"
           ELSE IF StrContains(bannerUpper, "POSTGRESQL") THEN "PostgreSQL"
           ELSE IF port \in DOMAIN ServiceProbes THEN ServiceProbes[port]
           ELSE "unknown"
           : bannerUpper \in {ToUpper(banner)} })

\* parseVersion: the field after the first field that contains "v" or
\* "Version" and is not the last one.
parseVersion(banner) ==
    LET parts == Fields(banner)
        hits  == {i \in 1..(Len(parts) - 1) :
                     StrContains(parts[i], "v") \/ StrContains(parts[i], "Version")}
    IN  IF hits = {} THEN "" ELSE parts[MinOf(hits) + 1]

\* What a port of the host does when the service prober connects to it.
NoAnswer == [dial |-> FALSE, line |-> FALSE, text |-> ""]

Answer(h, port) == IF port \in DOMAIN h.svc THEN h.svc[port] ELSE NoAnswer

\* probeService on a port whose connection succeeded: answer.line says that
\* a full line arrived before the read deadline, answer.text is that line.
probeService(answer, port) ==
    IF answer.line
    THEN Only({ [Port     |-> port,
                 Protocol |-> "tcp",
                 Service  |-> parseService(banner, port),
                 Banner   |-> banner,
                 Version  |-> IF banner # "" THEN parseVersion(banner) ELSE ""]
                : banner \in {TrimSpace(answer.text)} })
    ELSE [Port     |-> port,
          Protocol |-> "tcp",
          Service  |-> IF port \in DOMAIN ServiceProbes THEN ServiceProbes[port] ELSE "",
          Banner   |-> "",
          Version  |-> ""]

\* DetectServices: one entry for every port the prober could connect to.
DetectServices(h, ports) ==
    {probeService(Answer(h, p), p) : p \in {q \in ports : Answer(h, q).dial}}

(***************************************************************************)
(* Per-host pipeline                                                       *)
(***************************************************************************)
containsAny(slice, values) == slice \cap values # {}

NoGuess == [OS |-> "Unknown", Family |-> "Unknown"]

\* guessOS for a pipeline in which an identified SSH service decides the
\* guess whatever the ports said.
guessOSServiceFirst(openPorts, services) ==
    IF \E svc \in services : svc.Service = "SSH"
    THEN [OS |-> "Linux/Unix", Family |-> "Unix"]
    ELSE IF containsAny(openPorts, {135, 139, 445, 3389})
            /\ ~containsAny(openPorts, {22, 111, 2049})
    THEN [OS |-> "Windows", Family |-> "Windows"]
    ELSE IF containsAny(openPorts, {22, 111, 2049})
            /\ ~containsAny(openPorts, {135, 139, 445, 3389})
    THEN [OS |-> "Linux", Family |-> "Unix"]
    ELSE IF containsAny(openPorts, {22, 111})
    THEN [OS |-> "Unix-like", Family |-> "Unix"]
    ELSE NoGuess

\* guessOS: port patterns first, then an SSH service when the family is
\* still unknown.
guessOS(openPorts, services) ==
    LET hasWindowsPorts == containsAny(openPorts, {135, 139, 445, 3389})
        hasLinuxPorts   == containsAny(openPorts, {22, 111, 2049})
        hasUnixPorts    == containsAny(openPorts, {22, 111})
        byPorts == IF hasWindowsPorts /\ ~hasLinuxPorts
                   THEN [OS |-> "Windows", Family |-> "Windows"]
                   ELSE IF hasLinuxPorts /\ ~hasWindowsPorts
                   THEN [OS |-> "Linux", Family |-> "Unix"]
                   ELSE IF hasUnixPorts
                   THEN [OS |-> "Unix-like", Family |-> "Unix"]
                   ELSE NoGuess
    IN  IF byPorts.Family = "Unknown" /\ \E svc \in services : svc.Service = "SSH"
        THEN [OS |-> "Linux/Unix", Family |-> "Unix"]
        ELSE byPorts

\* calculateConfidence with the hostname weighted like the open ports.
calculateConfidenceHostname10(mac, hostname, openPorts, osGuess) ==
    50 + (IF mac # "" THEN 20 ELSE 0) + (IF hostname # "" THEN 10 ELSE 0)
       + (IF openPorts # {} THEN 10 ELSE 0) + (IF osGuess # "" THEN 5 ELSE 0)

calculateConfidence(mac, hostname, openPorts, osGuess) ==
    LET score == 50 + (IF mac # "" THEN 20 ELSE 0)
                    + (IF hostname # "" THEN 15 ELSE 0)
                    + (IF openPorts # {} THEN 10 ELSE 0)
                    + (IF osGuess # "" THEN 5 ELSE 0)
    IN  IF score > 100 THEN 100 ELSE score

NilDevice == [nil |-> TRUE]

\* QuickDrops with the two ping conditions joined by "and" instead of "or".
QuickDropsOnlyOnError(r, pr) == r.ScanType = "quick" /\ (~pr.alive /\ pr.err)

\* QuickDrops for a pipeline that drops unresponsive hosts whatever the scan
\* type.
DropsUnresponsive(r, pr) == ~pr.alive \/ pr.err

\* Quick scans only report hosts that answer the ping.
QuickDrops(r, pr) == r.ScanType = "quick" /\ (~pr.alive \/ pr.err)

\* StatusAfterPorts for a pipeline in which open ports say nothing about
\* the host being up.
StatusIgnoresPorts(status, ports) == status

\* Lines 237-243: open ports turn an unknown host into an online one.
StatusAfterPorts(status, ports) ==
    IF ports # {} /\ status = "unknown" THEN "online" ELSE status

\* Stage 2 for a pipeline that looks up the MAC address and the name of
\* every host.
Stage2Always(alive, h) ==
    [Status     |-> IF alive THEN "online" ELSE "unknown",
     MACAddress |-> GetMAC(h).mac,
     Hostname   |-> getHostname(h).name]

\* Lines 213-232: the fresh record, and for a host that answered the ping
\* its MAC address and name, each kept only when its lookup had no error.
Stage2(alive, h) ==
    IF alive
    THEN [Status     |-> "online",
          MACAddress |-> IF GetMAC(h).err THEN "" ELSE GetMAC(h).mac,
          Hostname   |-> IF getHostname(h).err THEN "" ELSE getHostname(h).name]
    ELSE [Status |-> "unknown", MACAddress |-> "", Hostname |-> ""]

\* Stage 3 (lines 235-244): the ports found open; none when the stage is
\* not run.
Stage3(r, h) ==
    IF r.ScanPorts /\ r.ScanType # "quick" THEN ScanPorts(r, h) ELSE {}

\* Stage 4 (lines 247-250)
Stage4(r, h, ports) ==
    IF r.ServiceDetection /\ ports # {} THEN DetectServices(h, ports) ELSE {}

\* Stage 5 for a pipeline that records a guess only when a rule fired.
Stage5KnownOnly(r, ports, services) ==
    IF r.OSDetection /\ guessOS(ports, services).OS # "Unknown"
    THEN guessOS(ports, services)
    ELSE [OS |-> "", Family |-> ""]

\* Stage 5 (lines 253-257)
Stage5(r, ports, services) ==
    IF r.OSDetection THEN guessOS(ports, services) ELSE [OS |-> "", Family |-> ""]

\* scanHost: the device record, or NilDevice.  It never returns an error.
scanHost(addr, r, privileged, h) ==
    Only({
        IF QuickDrops(r, pr) THEN NilDevice
        ELSE Only({ Only({ Only({
                [nil        |-> FALSE,
                 IP         |-> addr,
                 Status     |-> StatusAfterPorts(s2.Status, ports),
                 MACAddress |-> s2.MACAddress,
                 Hostname   |-> s2.Hostname,
                 OpenPorts  |-> ports,
                 Services   |-> services,
                 OSGuess    |-> os.OS,
                 OSFamily   |-> os.Family,
                 Confidence |-> calculateConfidence(s2.MACAddress, s2.Hostname,
                                                    ports, os.OS)]
                : os \in {Stage5(r, ports, services)} })
                : services \in {Stage4(r, h, ports)} })
                : s2 \in {Stage2(pr.alive, h)}, ports \in {Stage3(r, h)} })
        : pr \in {Ping(privileged, h)} })

(***************************************************************************)
(* Scan record                                                             *)
(***************************************************************************)
getDepthFromType(scanType) ==
    CASE scanType = "quick" -> 1
      [] scanType = "full"  -> 3
      [] scanType = "deep"  -> 5
      [] OTHER              -> 2

\* Percent as a per-mille figure.
PercentPerMille(scanned, total) == [num |-> scanned * 1000, den |-> total]

\* float64(scanned) / float64(total) * 100, kept as the exact ratio num/den.
Percent(scanned, total) == [num |-> scanned * 100, den |-> total]

ZeroPercent == [num |-> 0, den |-> 1]

\* The record ScanNetwork creates.
NewScan(id, r) ==
    [NetworkID       |-> id,
     Status          |-> "running",
     ScanType        |-> r.ScanType,
     ScanDepth       |-> getDepthFromType(r.ScanType),
     TotalHosts      |-> 0,
     ScannedHosts    |-> 0,
     FoundHosts      |-> 0,
     ProgressPercent |-> ZeroPercent,
     ErrorMessage    |-> "",
     StartedAt       |-> TRUE,
     CompletedAt     |-> FALSE]

\* Failed without recording the error message.
FailedNoMessage(sc, msg) == [sc EXCEPT !.Status = "failed", !.CompletedAt = TRUE]

\* The abort path shared by both fatal conditions.
Failed(sc, msg) ==
    [sc EXCEPT !.Status = "failed", !.ErrorMessage = msg, !.CompletedAt = TRUE]

Completed(sc) == [sc EXCEPT !.Status = "completed", !.CompletedAt = TRUE]

(***************************************************************************)
(* Persistent store, as seen by the scanner                                *)
(***************************************************************************)
\* The networks the store holds: id -> subnet.
StoredNetworks ==
    [n \in {"net-30", "net-32", "net-29", "net-26", "net-bad", "net-all"} |->
        CASE n = "net-30"  -> "10.0.0.8/30"
          [] n = "net-32"  -> "10.0.0.7/32"
          [] n = "net-29"  -> "10.0.0.0/29"
          [] n = "net-26"  -> "10.0.0.0/26"
          [] n = "net-bad" -> "10.0.0/24"
          [] n = "net-all" -> "0.0.0.0/0"]

GetNetwork(id) ==
    IF id \in DOMAIN StoredNetworks
    THEN [err |-> FALSE, Subnet |-> StoredNetworks[id]]
    ELSE [err |-> TRUE, Subnet |-> ""]

(***************************************************************************)
(* Inputs                                                                  *)
(***************************************************************************)
maxConcurrent == 5

ProgressEvery == 50

NoQuery == [state |-> "none"]

\* No scanHost / ScanPorts call is being made on its own.
NoCall == [state |-> "none"]

\* What a probed host may do.
\* A port that accepts the service prober's connection and sends a line.
Says(text) == [dial |-> TRUE, line |-> TRUE, text |-> text]

\* A port that accepts the connection and sends no full line in time.
Mute == [dial |-> TRUE, line |-> FALSE, text |-> ""]

NoNames == [err |-> TRUE, names |-> <<>>]

HostProfiles ==
    { [ping |-> "reply",  open |-> {22}, arp |-> "aa:bb:cc:00:00:01",
       dns |-> [err |-> FALSE, names |-> <<"host.lan.">>],
       svc |-> (22 :> Says("SSH-2.0-OpenSSH_8.9\r\n"))],
      [ping |-> "silent", open |-> {}, arp |-> "error", dns |-> NoNames,
       svc |-> <<>>],
      [ping |-> "silent", open |-> {445}, arp |-> "error", dns |-> NoNames,
       svc |-> (445 :> Mute)],
      [ping |-> "error",  open |-> {}, arp |-> "error", dns |-> NoNames,
       svc |-> <<>>] }

ExcludeLists ==
    { <<>>, <<"10.0.0.9">>, <<"10.0.0.3">>, <<"bogus", "10.0.0.8/29">>, <<"10.0.0.7/32", "10.0.0.10">> }

Rules ==
    [ScanType         : {"quick", "full", "deep"},
     ScanPorts        : BOOLEAN,
     PortScanType     : {"common"},
     CustomPorts      : {<<>>},
     ServiceDetection : {TRUE},
     OSDetection      : {TRUE},
     ExcludeIPs       : ExcludeLists]

\* The state at the call of ScanNetwork(networkID, rule, updateFunc).
InitRun(ids, rules, envs) ==
    /\ networkID \in ids
    /\ rule \in rules
    /\ env \in envs
    /\ orch = "create"
    /\ ret = "none"
    /\ scan = [Status |-> "none"]
    /\ updates = <<>>
    /\ subnet = ""
    /\ ipNet = NoNet
    /\ ip = <<>>
    /\ ips = <<>>
    /\ tasks = <<>>
    /\ sem = 0
    /\ wg = 0
    /\ foundCount = 0
    /\ scannedCount = 0
    /\ scanHostCalls = {}
    /\ upsertCalls = {}
    /\ mu = 0
    /\ query = NoQuery
    /\ hostCall = NoCall
    /\ portScan = NoCall

Init ==
    InitRun({"net-30", "net-32", "net-bad", "net-all", "net-missing"},
            Rules,
            [privileged   : BOOLEAN,
             hosts        : {HostProfiles},
             storeResults : {{"ok", "err"}}])

(***************************************************************************)
(* ScanNetwork: the orchestrating goroutine                                *)
(***************************************************************************)
runVars == <<networkID, rule, env, query, hostCall, portScan>>

taskVars == <<tasks, sem, wg, foundCount, scannedCount, scanHostCalls, upsertCalls, mu>>

genVars == <<ipNet, ip, ips>>

\* updateFunc(scan): the callback receives the record as it is now.
Report(sc) == Append(updates, sc)

\* Lines 51-65: create the record and report it.
Create ==
    /\ orch = "create"
    /\ scan' = NewScan(networkID, rule)
    /\ updates' = Report(scan')
    /\ orch' = "getnet"
    /\ UNCHANGED <<runVars, taskVars, genVars, ret, subnet>>

\* Lines 67-78: look the network up; a failure aborts the run.
LookupNetwork ==
    /\ orch = "getnet"
    /\ \E res \in {GetNetwork(networkID)} :
           IF res.err
           THEN /\ scan' = Failed(scan, "getting network: not found")
                /\ updates' = Report(scan')
                /\ ret' = "error"
                /\ orch' = "returned"
                /\ UNCHANGED subnet
           ELSE /\ subnet' = res.Subnet
                /\ orch' = "parse"
                /\ UNCHANGED <<scan, updates, ret>>
    /\ UNCHANGED <<runVars, taskVars, genVars>>

\* generateIPList, lines 267-273: parse the subnet; a parse error is returned
\* to ScanNetwork, which aborts the run (lines 82-91).  The error of
\* net.ParseCIDR is a net.ParseError, whose text is "invalid CIDR address: "
\* followed by the text that did not parse.
GenerateParse ==
    /\ orch = "parse"
    /\ \E parsed \in {ParseCIDR(subnet)} :
           IF ~parsed.ok
           THEN /\ scan' = Failed(scan, "generating IP list: invalid CIDR address: "
                                           \o subnet)
                /\ updates' = Report(scan')
                /\ ret' = "error"
                /\ orch' = "returned"
                /\ UNCHANGED genVars
           ELSE /\ ipNet' = parsed
                /\ ip' = Mask(parsed.IP, parsed.ones)
                /\ ips' = <<>>
                /\ orch' = "enum"
                /\ UNCHANGED <<scan, updates, ret>>
    /\ UNCHANGED <<runVars, taskVars, subnet>>

\* generateIPList, lines 273-292: one iteration of the loop.
GenerateIter ==
    /\ orch = "enum"
    /\ ~ContainsEverything(ipNet)
    /\ Contains(ipNet, ip)
    /\ ips' = GenLoopBody(ipNet, ip, ips)
    /\ ip' = inc(ip)
    /\ UNCHANGED <<runVars, taskVars, ipNet, orch, ret, scan, updates, subnet>>

\* generateIPList, line 273, on a block that contains every address: the
\* loop condition holds for every value of the cursor, inc wraps from
\* 255.255.255.255 to 0.0.0.0 inside the block, and the loop never exits.
\* The unending loop is recorded as one step to "looping".
GenerateForever ==
    /\ orch = "enum"
    /\ ContainsEverything(ipNet)
    /\ orch' = "looping"
    /\ UNCHANGED <<runVars, taskVars, genVars, ret, scan, updates, subnet>>

\* generateIPList returns (line 294); ScanNetwork records the total and
\* reports it (lines 93-96).
GenerateReturn ==
    /\ orch = "enum"
    /\ ~Contains(ipNet, ip)
    /\ scan' = [scan EXCEPT !.TotalHosts = Len(ips)]
    /\ updates' = Report(scan')
    /\ orch' = "spawn"
    /\ UNCHANGED <<runVars, taskVars, genVars, ret, subnet>>

\* No host has been probed.
NoHost == [ping |-> "none", open |-> {}, arp |-> "error", dns |-> NoNames, svc |-> <<>>]

\* The fields of the record that host goroutines write (lines 148, 164, 167).
RacyFields == {"FoundHosts", "ScannedHosts", "ProgressPercent"}

\* What a callback has read of these fields before it has read any.
NothingSeen == [FoundHosts |-> 0, ScannedHosts |-> 0, ProgressPercent |-> ZeroPercent]

\* The goroutine of line 118 as it is started: its position, its argument and
\* its locals (read and seen: the fields of the record its updateFunc call
\* has read so far).
NewTask(addr) ==
    [pc |-> "wait", ip |-> addr, excluded |-> FALSE, host |-> NoHost,
     device |-> NilDevice, store |-> "none", shouldUpdate |-> FALSE,
     read |-> {}, seen |-> NothingSeen]

\* Lines 115-118: wg.Add(1) and start the goroutine of the next address.
Spawn ==
    /\ orch = "spawn"
    /\ Len(tasks) < Len(ips)
    /\ wg' = wg + 1
    /\ tasks' = Append(tasks, NewTask(ips[Len(tasks) + 1]))
    /\ UNCHANGED <<runVars, genVars, orch, ret, scan, updates, subnet,
                   sem, foundCount, scannedCount, scanHostCalls, upsertCalls, mu>>

\* AllDone for a ScanNetwork that does not wait for its goroutines.
AllDoneEarly(n) == TRUE

\* wg.Wait() can return.
AllDone(n) == n = 0

\* Line 177: every goroutine is started and wg.Wait() returns.
Wait ==
    /\ orch = "spawn"
    /\ Len(tasks) = Len(ips)
    /\ AllDone(wg)
    /\ orch' = "complete"
    /\ UNCHANGED <<runVars, taskVars, genVars, ret, scan, updates, subnet>>

\* Complete for a ScanNetwork that lets a failed store write fail the run.
CompleteFailsOnStoreError ==
    /\ orch = "complete"
    /\ IF \E t \in 1..Len(tasks) : tasks[t].store = "err"
       THEN /\ scan' = Failed(scan, "saving discovered device")
            /\ ret' = "error"
       ELSE /\ scan' = Completed(scan)
            /\ ret' = "nil"
    /\ updates' = Report(scan')
    /\ orch' = "returned"
    /\ UNCHANGED <<runVars, taskVars, genVars, subnet>>

\* Complete for a ScanNetwork that returns without its final report.
CompleteWithoutReport ==
    /\ orch = "complete"
    /\ scan' = Completed(scan)
    /\ ret' = "nil"
    /\ orch' = "returned"
    /\ UNCHANGED <<runVars, taskVars, genVars, subnet, updates>>

\* Lines 181-192: complete the record, report it and return nil.
Complete ==
    /\ orch = "complete"
    /\ scan' = Completed(scan)
    /\ updates' = Report(scan')
    /\ ret' = "nil"
    /\ orch' = "returned"
    /\ UNCHANGED <<runVars, taskVars, genVars, subnet>>

(***************************************************************************)
(* ScanNetwork: the goroutine of one host (lines 118-174)                  *)
(***************************************************************************)
orchVars == <<orch, ret, subnet>>

\* SemCanSend for an unbounded channel: no admission control.
SemNeverFull(n) == TRUE

\* A send on the semaphore channel can proceed.
SemCanSend(n) == n < maxConcurrent

\* Lines 122-128: take a semaphore slot and leave at once if the address is
\* excluded.
Acquire(t) ==
    /\ tasks[t].pc = "wait"
    /\ SemCanSend(sem)
    /\ sem' = sem + 1
    /\ tasks' = IF isExcluded(tasks[t].ip, rule.ExcludeIPs)
                THEN [tasks EXCEPT ![t].pc = "release", ![t].excluded = TRUE]
                ELSE [tasks EXCEPT ![t].pc = "lockCount"]
    /\ UNCHANGED <<runVars, genVars, orchVars, scan, updates, wg, foundCount,
                   scannedCount, scanHostCalls, upsertCalls, mu>>

\* The section a goroutine waiting at mu.Lock() is about to enter.
Section(pc) ==
    CASE pc = "lockCount"    -> "count"
      [] pc = "lockFound"    -> "found"
      [] pc = "lockProgress" -> "progress"
      [] OTHER               -> pc

\* Lock for a goroutine that enters its section without taking the mutex.
LockSkipped(t) ==
    /\ tasks[t].pc \in {"lockCount", "lockFound", "lockProgress"}
    /\ tasks' = [tasks EXCEPT ![t].pc = Section(@)]
    /\ UNCHANGED <<runVars, genVars, orchVars, scan, updates, sem, wg, foundCount,
                   scannedCount, scanHostCalls, upsertCalls, mu>>

\* mu.Lock() (lines 131, 146, 163): proceeds when the mutex is free.
Lock(t) ==
    /\ tasks[t].pc \in {"lockCount", "lockFound", "lockProgress"}
    /\ mu = 0
    /\ mu' = t
    /\ tasks' = [tasks EXCEPT ![t].pc = Section(@)]
    /\ UNCHANGED <<runVars, genVars, orchVars, scan, updates, sem, wg, foundCount,
                   scannedCount, scanHostCalls, upsertCalls>>

\* Lines 132-136: count the host for the progress log; mu.Unlock().
Count(t) ==
    /\ tasks[t].pc = "count"
    /\ scannedCount' = scannedCount + 1
    /\ mu' = 0
    /\ tasks' = [tasks EXCEPT ![t].pc = "scan"]
    /\ UNCHANGED <<runVars, genVars, orchVars, scan, updates, sem, wg, foundCount,
                   scanHostCalls, upsertCalls>>

\* Lines 139-145: probe the host.
ScanHost(t) ==
    /\ tasks[t].pc = "scan"
    /\ \E h \in env.hosts :
        \E device \in {scanHost(tasks[t].ip, rule, env.privileged, h)} :
            tasks' = [tasks EXCEPT ![t].host = h,
                                   ![t].device = device,
                                   ![t].pc = IF device.nil THEN "lockProgress"
                                             ELSE "lockFound"]
    /\ scanHostCalls' = scanHostCalls \cup {tasks[t].ip}
    /\ UNCHANGED <<runVars, genVars, orchVars, scan, updates, sem, wg, foundCount,
                   scannedCount, upsertCalls, mu>>

\* Lines 147-149: count the device; mu.Unlock().
Found(t) ==
    /\ tasks[t].pc = "found"
    /\ foundCount' = foundCount + 1
    /\ scan' = [scan EXCEPT !.FoundHosts = foundCount']
    /\ mu' = 0
    /\ tasks' = [tasks EXCEPT ![t].pc = "store"]
    /\ UNCHANGED <<runVars, genVars, orchVars, updates, sem, wg, scannedCount,
                   scanHostCalls, upsertCalls>>

\* Store for a goroutine that returns on a failed store write.
StoreErrorEndsHost(t) ==
    /\ tasks[t].pc = "store"
    /\ \E res \in env.storeResults :
        tasks' = [tasks EXCEPT ![t].store = res,
                               ![t].pc = IF res = "err" THEN "release"
                                         ELSE "lockProgress"]
    /\ upsertCalls' = upsertCalls \cup {tasks[t].ip}
    /\ UNCHANGED <<runVars, genVars, orchVars, scan, updates, sem, wg, foundCount,
                   scannedCount, scanHostCalls, mu>>

\* Lines 154-159: upsert the device; an error is logged only.
Store(t) ==
    /\ tasks[t].pc = "store"
    /\ \E res \in env.storeResults :
        tasks' = [tasks EXCEPT ![t].store = res, ![t].pc = "lockProgress"]
    /\ upsertCalls' = upsertCalls \cup {tasks[t].ip}
    /\ UNCHANGED <<runVars, genVars, orchVars, scan, updates, sem, wg, foundCount,
                   scannedCount, scanHostCalls, mu>>

\* ShouldUpdate that reports after every host.
ShouldUpdateAlways(scanned, total) == TRUE

\* Line 165
ShouldUpdate(scanned, total) == scanned % ProgressEvery = 0 \/ scanned = total

\* Lines 164-165: count the host in the record and test the new count for a
\* milestone.  The mutex stays held.
Progress(t) ==
    /\ tasks[t].pc = "progress"
    /\ \E n \in {scan.ScannedHosts + 1} :
        /\ scan' = [scan EXCEPT !.ScannedHosts = n]
        /\ tasks' = [tasks EXCEPT
                       ![t].shouldUpdate = ShouldUpdate(n, scan.TotalHosts),
                       ![t].pc = "recompute"]
    /\ UNCHANGED <<runVars, genVars, orchVars, updates, sem, wg, foundCount,
                   scannedCount, scanHostCalls, upsertCalls, mu>>

\* Lines 166-169: recompute the progress from the count the record holds;
\* mu.Unlock().  Between Progress and this step the record holds the new
\* count with the percentage of the previous one.
Recompute(t) ==
    /\ tasks[t].pc = "recompute"
    /\ scan' = IF scan.TotalHosts > 0
               THEN [scan EXCEPT !.ProgressPercent =
                                     Percent(scan.ScannedHosts, scan.TotalHosts)]
               ELSE scan
    /\ mu' = 0
    /\ tasks' = [tasks EXCEPT ![t].pc = IF tasks[t].shouldUpdate
                                        THEN "update" ELSE "release"]
    /\ UNCHANGED <<runVars, genVars, orchVars, updates, sem, wg, foundCount,
                   scannedCount, scanHostCalls, upsertCalls>>

\* Lines 171-172: the milestone test passed; updateFunc is entered with the
\* pointer to the shared record, outside the mutex.
CallUpdate(t) ==
    /\ tasks[t].pc = "update"
    /\ tasks' = [tasks EXCEPT ![t].pc = "updating"]
    /\ UNCHANGED <<runVars, genVars, orchVars, scan, updates, sem, wg, foundCount,
                   scannedCount, scanHostCalls, upsertCalls, mu>>

\* Line 172, inside updateFunc: the callback reads one field of the record
\* through the pointer.  It does not hold the mutex, so the other goroutines
\* write the record between two of its reads (a data race); the callback is
\* not part of the package, so the fields are read in any order, each one at
\* any moment of the call.  A field is a machine word and is read whole.
ReadField(t) ==
    /\ tasks[t].pc = "updating"
    /\ \E f \in RacyFields \ tasks[t].read :
          tasks' = [tasks EXCEPT ![t].read = @ \cup {f},
                                 ![t].seen = [@ EXCEPT ![f] = scan[f]]]
    /\ UNCHANGED <<runVars, genVars, orchVars, scan, updates, sem, wg, foundCount,
                   scannedCount, scanHostCalls, upsertCalls, mu>>

\* Lines 172-173: updateFunc has read the record and returns; what it
\* reports is what its reads have seen.
Update(t) ==
    /\ tasks[t].pc = "updating"
    /\ tasks[t].read = RacyFields
    /\ updates' = Report([scan EXCEPT
                              !.FoundHosts      = tasks[t].seen.FoundHosts,
                              !.ScannedHosts    = tasks[t].seen.ScannedHosts,
                              !.ProgressPercent = tasks[t].seen.ProgressPercent])
    /\ tasks' = [tasks EXCEPT ![t].pc = "release", ![t].read = {},
                              ![t].seen = NothingSeen]
    /\ UNCHANGED <<runVars, genVars, orchVars, scan, sem, wg, foundCount,
                   scannedCount, scanHostCalls, upsertCalls, mu>>

\* The deferred calls run last in, first out.  First the one of line 123:
\* <-sem frees the slot.
Release(t) ==
    /\ tasks[t].pc = "release"
    /\ sem' = sem - 1
    /\ tasks' = [tasks EXCEPT ![t].pc = "wgDone"]
    /\ UNCHANGED <<runVars, genVars, orchVars, scan, updates, wg, foundCount,
                   scannedCount, scanHostCalls, upsertCalls, mu>>

\* Then the one of line 119: wg.Done(), after which the goroutine is gone.
WgDone(t) ==
    /\ tasks[t].pc = "wgDone"
    /\ wg' = wg - 1
    /\ tasks' = [tasks EXCEPT ![t].pc = "done"]
    /\ UNCHANGED <<runVars, genVars, orchVars, scan, updates, sem, foundCount,
                   scannedCount, scanHostCalls, upsertCalls, mu>>

HostStep ==
    \E t \in 1..Len(tasks) :
        \/ Acquire(t)
        \/ Lock(t)
        \/ Count(t)
        \/ ScanHost(t)
        \/ Found(t)
        \/ Store(t)
        \/ Progress(t)
        \/ Recompute(t)
        \/ CallUpdate(t)
        \/ ReadField(t)
        \/ Update(t)
        \/ Release(t)
        \/ WgDone(t)

Next ==
    \/ Create
    \/ LookupNetwork
    \/ GenerateParse
    \/ GenerateIter
    \/ GenerateForever
    \/ GenerateReturn
    \/ Spawn
    \/ Wait
    \/ Complete
    \/ HostStep

Spec == Init /\ [][Next]_vars

(***************************************************************************)
(* A run over the six hosts of a /29, more than the pool admits at once    *)
(***************************************************************************)
InitPool ==
    InitRun({"net-29", "net-all"},
            {r \in Rules : r.ScanType = "quick" /\ ~r.ScanPorts
                           /\ r.ExcludeIPs = <<"10.0.0.3">>},
            [privileged   : {TRUE},
             hosts        : {{h \in HostProfiles : h.open = {22}}},
             storeResults : {{"ok"}}])

SpecPool == InitPool /\ [][Next]_vars

LiveSpec == Spec /\ WF_vars(Next)

(***************************************************************************)
(* A run on net-26 (62 candidate hosts), taken up when the goroutines of   *)
(* the first MilestoneDone addresses have finished one after the other and *)
(* the remaining ones are not started yet                                  *)
(***************************************************************************)
MilestoneDone == 59

MilestoneIPs == [k \in 1..62 |-> IPString(<<10, 0, 0, k>>)]

Silent == [ping |-> "silent", open |-> {}, arp |-> "error", dns |-> NoNames, svc |-> <<>>]

\* The goroutine of address number t after it has finished, when it was the
\* k-th host to be counted (k = 0: excluded).
DoneTask(t, k, total) ==
    [pc |-> "done", ip |-> MilestoneIPs[t], excluded |-> k = 0,
     host |-> IF k = 0 THEN NoHost ELSE Silent,
     device |-> NilDevice, store |-> "none",
     shouldUpdate |-> k # 0 /\ ShouldUpdate(k, total),
     read |-> {}, seen |-> NothingSeen]

InitMilestone ==
    /\ networkID = "net-26"
    /\ rule \in {[r EXCEPT !.ExcludeIPs = x] :
                    r \in {q \in Rules : q.ScanType = "quick" /\ ~q.ScanPorts
                                          /\ q.ExcludeIPs = <<>>},
                    x \in {<<>>, <<"10.0.0.1", "10.0.0.2", "10.0.0.8/29">>}}
    /\ env = [privileged |-> TRUE,
              hosts |-> {h \in HostProfiles : h.open = {22} \/ h = Silent},
              storeResults |-> {"ok"}]
    /\ orch = "spawn"
    /\ ret = "none"
    /\ subnet = StoredNetworks[networkID]
    /\ ipNet = ParseCIDR(subnet)
    /\ ip = <<10, 0, 0, 64>>
    /\ ips = MilestoneIPs
    /\ \E counted \in {[t \in 1..MilestoneDone |->
                          IF isExcluded(MilestoneIPs[t], rule.ExcludeIPs) THEN 0
                          ELSE Cardinality({u \in 1..t :
                                  ~isExcluded(MilestoneIPs[u], rule.ExcludeIPs)})]} :
       \E n \in {Cardinality({t \in 1..MilestoneDone : counted[t] # 0})} :
       \E total \in {[NewScan(networkID, rule) EXCEPT !.TotalHosts = Len(ips)]} :
          /\ tasks = [t \in 1..MilestoneDone |-> DoneTask(t, counted[t], Len(ips))]
          /\ scannedCount = n
          /\ scanHostCalls = {MilestoneIPs[t] : t \in {u \in 1..MilestoneDone : counted[u] # 0}}
          /\ scan = [total EXCEPT !.ScannedHosts = n,
                                  !.ProgressPercent = Percent(n, Len(ips))]
          /\ updates = <<NewScan(networkID, rule), total>> \o
                       [i \in 1..(n \div ProgressEvery) |->
                           [total EXCEPT !.ScannedHosts = i * ProgressEvery,
                                         !.ProgressPercent =
                                             Percent(i * ProgressEvery, Len(ips))]]
    /\ sem = 0
    /\ wg = 0
    /\ foundCount = 0
    /\ upsertCalls = {}
    /\ mu = 0
    /\ query = NoQuery
    /\ hostCall = NoCall
    /\ portScan = NoCall

NextMilestone ==
    \/ Spawn
    \/ Wait
    \/ Complete
    \/ HostStep

SpecMilestone == InitMilestone /\ [][NextMilestone]_vars

(***************************************************************************)
(* The same run with a slow updateFunc: the goroutine that counted host    *)
(* number 50 is still inside updateFunc, holding its pool slot, and the    *)
(* other slots have meanwhile taken the goroutines up to CallbackDone      *)
(* through, one after the other                                            *)
(***************************************************************************)
CallbackDone == 60

InitCallback ==
    /\ networkID = "net-26"
    /\ rule \in {q \in Rules : q.ScanType = "quick" /\ ~q.ScanPorts /\ q.ExcludeIPs = <<>>}
    /\ env = [privileged |-> TRUE,
              hosts |-> {h \in HostProfiles : h.open = {22} \/ h = Silent},
              storeResults |-> {"ok"}]
    /\ orch = "spawn"
    /\ ret = "none"
    /\ subnet = StoredNetworks[networkID]
    /\ ipNet = ParseCIDR(subnet)
    /\ ip = <<10, 0, 0, 64>>
    /\ ips = MilestoneIPs
    /\ \E total \in {[NewScan(networkID, rule) EXCEPT !.TotalHosts = Len(ips)]} :
          /\ tasks = [t \in 1..CallbackDone |->
                         IF t = ProgressEvery
                         THEN [DoneTask(t, t, Len(ips)) EXCEPT !.pc = "updating"]
                         ELSE DoneTask(t, t, Len(ips))]
          /\ scan = [total EXCEPT !.ScannedHosts = CallbackDone,
                                  !.ProgressPercent = Percent(CallbackDone, Len(ips))]
          /\ updates = <<NewScan(networkID, rule), total>>
    /\ scannedCount = CallbackDone
    /\ scanHostCalls = {MilestoneIPs[t] : t \in 1..CallbackDone}
    /\ sem = 1
    /\ wg = 1
    /\ foundCount = 0
    /\ upsertCalls = {}
    /\ mu = 0
    /\ query = NoQuery
    /\ hostCall = NoCall
    /\ portScan = NoCall

SpecCallback == InitCallback /\ [][NextMilestone]_vars

(***************************************************************************)
(* A run over the six hosts of a /29, none of them excluded and every one  *)
(* answering the ping, taken up when the goroutines of the first           *)
(* maxConcurrent addresses hold the slots of the pool and are about to     *)
(* probe their host, and the goroutine of the sixth is not started yet     *)
(***************************************************************************)
InitLead ==
    /\ networkID = "net-29"
    /\ rule \in {r \in Rules : r.ScanType = "quick" /\ ~r.ScanPorts
                                /\ r.ExcludeIPs = <<>>}
    /\ env = [privileged |-> TRUE,
              hosts |-> {h \in HostProfiles : h.open = {22}},
              storeResults |-> {"ok"}]
    /\ orch = "spawn"
    /\ ret = "none"
    /\ subnet = StoredNetworks[networkID]
    /\ ipNet = ParseCIDR(subnet)
    /\ ip = <<10, 0, 0, 8>>
    /\ ips = [k \in 1..6 |-> IPString(<<10, 0, 0, k>>)]
    /\ tasks = [t \in 1..maxConcurrent |-> [NewTask(ips[t]) EXCEPT !.pc = "scan"]]
    /\ scan = [NewScan(networkID, rule) EXCEPT !.TotalHosts = Len(ips)]
    /\ updates = <<NewScan(networkID, rule), scan>>
    /\ sem = maxConcurrent
    /\ wg = maxConcurrent
    /\ foundCount = 0
    /\ scannedCount = maxConcurrent
    /\ scanHostCalls = {}
    /\ upsertCalls = {}
    /\ mu = 0
    /\ query = NoQuery
    /\ hostCall = NoCall
    /\ portScan = NoCall

SpecLead == InitLead /\ [][NextMilestone]_vars

(***************************************************************************)
(* generateIPList on its own, entered with a subnet the store returned     *)
(***************************************************************************)
MaxHostBits == 8

GenBases ==
    { <<192, 168, 1, 0>>, <<192, 168, 1, 77>>, <<10, 0, 255, 200>>,
      <<172, 16, 0, 128>>, <<0, 0, 0, 0>>, <<255, 255, 255, 255>> }

GenSubnets ==
    { IPString(b) \o "/" \o ToString(p) : b \in GenBases, p \in (32 - MaxHostBits)..32 }
        \cup { "0.0.0.0/0", "192.168.1.0/33", "192.168.1/24", "192.168.1.0", "" }
        \cup { "10.0.0.8/0030", "10.0.0.7/00000000000000000032", "10.0.0.0/16777215" }
        \cup { "fe80::/126", "fe80::ffff/127", "::/128", "2001:db8::1:0:0:fffe/127",
               "ffff:ffff:ffff:ffff:ffff:ffff:ffff:ffff/127", "::ffff:10.0.0.0/120",
               "::ffff:255.255.255.255/127", "fe80::1%eth0/126", "fe80::/129",
               "fe80::12345/126", "fe80:/126" }

GenRule ==
    [ScanType |-> "full", ScanPorts |-> TRUE, PortScanType |-> "common",
     CustomPorts |-> <<>>, ServiceDetection |-> TRUE, OSDetection |-> TRUE,
     ExcludeIPs |-> <<>>]

InitGen ==
    /\ networkID = "net"
    /\ rule = GenRule
    /\ env = [privileged |-> TRUE, hosts |-> HostProfiles, storeResults |-> {"ok", "err"}]
    /\ orch = "parse"
    /\ ret = "none"
    /\ scan = NewScan(networkID, rule)
    /\ updates = <<scan>>
    /\ subnet \in GenSubnets
    /\ ipNet = NoNet
    /\ ip = <<>>
    /\ ips = <<>>
    /\ tasks = <<>>
    /\ sem = 0
    /\ wg = 0
    /\ foundCount = 0
    /\ scannedCount = 0
    /\ scanHostCalls = {}
    /\ upsertCalls = {}
    /\ mu = 0
    /\ query = NoQuery
    /\ hostCall = NoCall
    /\ portScan = NoCall

NextGen ==
    \/ GenerateParse
    \/ GenerateIter
    \/ GenerateForever
    \/ GenerateReturn

SpecGen == InitGen /\ [][NextGen]_vars

\* generateIPList is one sequential call: it keeps running while it can.
LiveSpecGen == SpecGen /\ WF_vars(NextGen)

(***************************************************************************)
(* isExcluded on its own                                                   *)
(***************************************************************************)
MaxExcl == 2

ExclEntries ==
    { "10.0.0.5", "10.0.0.9", "10.0.1.0/24", "10.0.0.8/30", "10.0.0.5/32",
      "10.0.2.200/24", "bogus", "10.0.0/24", "10.0.0.5/33", "10.0.0.05", "10.0.0.9/", "",
      "10.0.3.0/0024", "::ffff:10.0.0.9", "::ffff:10.0.1.0/120", "::ffff:0.0.0.0/95",
      "fe80::/126", "FE80::5", "::/0", "fe80::1%eth0/64" }

QueryIPs ==
    { "10.0.0.5", "10.0.0.9", "10.0.1.77", "10.0.2.1", "10.0.3.1", "fe80::1", "fe80::5" }

RECURSIVE SeqsUpTo(_, _)
SeqsUpTo(S, n) ==
    IF n = 0 THEN { <<>> }
    ELSE SeqsUpTo(S, n - 1) \cup { Append(q, e) : q \in SeqsUpTo(S, n - 1), e \in S }

Reverse(q) == [i \in 1..Len(q) |-> q[Len(q) + 1 - i]]

InitExcl ==
    /\ networkID = "net"
    /\ rule = GenRule
    /\ env = [privileged |-> TRUE, hosts |-> HostProfiles, storeResults |-> {"ok", "err"}]
    /\ orch = "idle"
    /\ ret = "none"
    /\ scan = [Status |-> "none"]
    /\ updates = <<>>
    /\ subnet = ""
    /\ ipNet = NoNet
    /\ ip = <<>>
    /\ ips = <<>>
    /\ tasks = <<>>
    /\ sem = 0
    /\ wg = 0
    /\ foundCount = 0
    /\ scannedCount = 0
    /\ scanHostCalls = {}
    /\ upsertCalls = {}
    /\ mu = 0
    /\ hostCall = NoCall
    /\ portScan = NoCall
    /\ \E a \in QueryIPs, l \in SeqsUpTo(ExclEntries, MaxExcl) :
          query = [state |-> "call", ip |-> a, list |-> l]

\* One call of isExcluded, and the same call with the list reversed.
ExcludedCall ==
    /\ query.state = "call"
    /\ query' = [state    |-> "ret",
                 ip       |-> query.ip,
                 list     |-> query.list,
                 result   |-> isExcluded(query.ip, query.list),
                 reversed |-> isExcluded(query.ip, Reverse(query.list))]
    /\ UNCHANGED <<networkID, rule, env, orch, ret, scan, updates, subnet, ipNet, ip,
                   ips, tasks, sem, wg, foundCount, scannedCount, scanHostCalls,
                   upsertCalls, mu, hostCall, portScan>>

NextExcl == ExcludedCall

SpecExcl == InitExcl /\ [][NextExcl]_vars

(***************************************************************************)
(* scanHost on its own                                                     *)
(***************************************************************************)
\* ScanNetwork is not running.
IdleScanner ==
    /\ networkID = "net"
    /\ orch = "idle"
    /\ ret = "none"
    /\ scan = [Status |-> "none"]
    /\ updates = <<>>
    /\ subnet = ""
    /\ ipNet = NoNet
    /\ ip = <<>>
    /\ ips = <<>>
    /\ tasks = <<>>
    /\ sem = 0
    /\ wg = 0
    /\ foundCount = 0
    /\ scannedCount = 0
    /\ scanHostCalls = {}
    /\ upsertCalls = {}
    /\ mu = 0

\* What the ports of a host do: the ports that accept a connection during
\* the port scan, and the answer each gives to the service prober.
PortBehaviours ==
    { [open |-> {},        svc |-> <<>>],
      [open |-> {22},      svc |-> (22 :> Says("SSH-2.0-OpenSSH_8.9\r\n"))],
      [open |-> {22},      svc |-> (22 :> NoAnswer)],
      [open |-> {445},     svc |-> (445 :> Mute)],
      [open |-> {80, 9999},
       svc  |-> (80 :> Says("HTTP/1.0 200 OK\r\n")) @@ (9999 :> Mute)],
      [open |-> {2222},    svc |-> (2222 :> Says("  ssh-2.0-dropbear v 2022.83 \r\n"))],
      [open |-> {8080},    svc |-> (8080 :> Says("\fbanner v\f1.2 x\n"))],
      [open |-> {8080},    svc |-> (8080 :> Says("café αβ http\n"))],
      [open |-> {22, 3389},
       svc  |-> (22 :> Mute) @@ (3389 :> Says("\r\n"))] }

ProbeProfiles ==
    { [ping |-> p, open |-> b.open, arp |-> a, dns |-> d, svc |-> b.svc] :
        p \in {"reply", "silent", "error"},
        a \in {"error", "aa:bb:cc:00:00:01"},
        d \in {NoNames, [err |-> FALSE, names |-> <<>>],
               [err |-> FALSE, names |-> <<"host.lan.", "alias.lan.">>]},
        b \in PortBehaviours }

PortPolicies ==
    { [type |-> "common", custom |-> <<>>],
      [type |-> "full",   custom |-> <<80, 2222, 9999>>],
      [type |-> "custom", custom |-> <<>>],
      [type |-> "custom", custom |-> <<80, 2222, 9999>>] }

HostRules ==
    { [ScanType |-> st, ScanPorts |-> sp, PortScanType |-> pp.type,
       CustomPorts |-> pp.custom, ServiceDetection |-> sd, OSDetection |-> od,
       ExcludeIPs |-> <<>>] :
        st \in {"quick", "full", "deep", ""}, sp \in BOOLEAN, pp \in PortPolicies,
        sd \in BOOLEAN, od \in BOOLEAN }

InitHost ==
    /\ IdleScanner
    /\ rule \in HostRules
    /\ env \in [privileged : BOOLEAN, hosts : {HostProfiles}, storeResults : {{"ok"}}]
    /\ query = NoQuery
    /\ portScan = NoCall
    /\ \E h \in ProbeProfiles :
          hostCall = [state |-> "call", ip |-> "10.0.0.5", host |-> h]

\* One call of scanHost.
ScanHostCall ==
    /\ hostCall.state = "call"
    /\ hostCall' = [state  |-> "ret",
                    ip     |-> hostCall.ip,
                    host   |-> hostCall.host,
                    device |-> scanHost(hostCall.ip, rule, env.privileged, hostCall.host)]
    /\ UNCHANGED <<networkID, rule, env, orch, ret, scan, updates, subnet, ipNet, ip,
                   ips, tasks, sem, wg, foundCount, scannedCount, scanHostCalls,
                   upsertCalls, mu, query, portScan>>

NextHost == ScanHostCall

SpecHost == InitHost /\ [][NextHost]_vars

(***************************************************************************)
(* ScanPorts on its own: one goroutine per candidate port (lines 459-490)  *)
(***************************************************************************)
MaxPorts == 3

PortUniverse == {22, 80, 9999}

\* Rules whose candidate list is empty or a custom list of up to MaxPorts
\* ports, repeated ports included.
PortRules ==
    { [ScanType |-> "full", ScanPorts |-> sp, PortScanType |-> "custom",
       CustomPorts |-> c, ServiceDetection |-> FALSE, OSDetection |-> FALSE,
       ExcludeIPs |-> <<>>] :
        sp \in BOOLEAN, c \in SeqsUpTo(PortUniverse, MaxPorts) \ {<<>>} }

InitPorts ==
    /\ IdleScanner
    /\ rule \in PortRules
    /\ env \in [privileged : {TRUE}, hosts : {HostProfiles}, storeResults : {{"ok"}}]
    /\ query = NoQuery
    /\ hostCall = NoCall
    /\ \E open \in SUBSET PortUniverse :
          portScan = [state |-> "call", open |-> open]

notPortScan ==
    <<networkID, rule, env, orch, ret, scan, updates, subnet, ipNet, ip, ips, tasks,
      sem, wg, foundCount, scannedCount, scanHostCalls, upsertCalls, mu, query, hostCall>>

\* Lines 460-467: the candidate ports; no candidate, no goroutine.
PortsEnter ==
    /\ portScan.state = "call"
    /\ \E ports \in {getPortsToScan(rule)} :
          portScan' = [state     |-> IF Len(ports) = 0 THEN "ret" ELSE "run",
                       open      |-> portScan.open,
                       ports     |-> ports,
                       pcs       |-> <<>>,
                       openPorts |-> <<>>,
                       mu        |-> 0,
                       wg        |-> 0,
                       result    |-> <<>>]
    /\ UNCHANGED notPortScan

\* Lines 471-473: wg.Add(1) and start the goroutine of the next port.
PortSpawn ==
    /\ portScan.state = "run"
    /\ Len(portScan.pcs) < Len(portScan.ports)
    /\ portScan' = [portScan EXCEPT !.wg = @ + 1, !.pcs = Append(@, "dial")]
    /\ UNCHANGED notPortScan

\* Lines 476-479: the connection attempt succeeds when the host accepts
\* connections on the port, and fails or times out otherwise.
PortDial(i) ==
    /\ portScan.state = "run"
    /\ portScan.pcs[i] = "dial"
    /\ portScan' = [portScan EXCEPT
                       !.pcs[i] = IF portScan.ports[i] \in portScan.open
                                  THEN "lock" ELSE "exit"]
    /\ UNCHANGED notPortScan

\* Line 481: mu.Lock()
PortLock(i) ==
    /\ portScan.state = "run"
    /\ portScan.pcs[i] = "lock"
    /\ portScan.mu = 0
    /\ portScan' = [portScan EXCEPT !.mu = i, !.pcs[i] = "append"]
    /\ UNCHANGED notPortScan

\* Lines 482-483: record the port; mu.Unlock().
PortAppend(i) ==
    /\ portScan.state = "run"
    /\ portScan.pcs[i] = "append"
    /\ portScan' = [portScan EXCEPT !.openPorts = Append(@, portScan.ports[i]),
                                    !.mu = 0,
                                    !.pcs[i] = "exit"]
    /\ UNCHANGED notPortScan

\* Line 474: the deferred wg.Done().
PortDone(i) ==
    /\ portScan.state = "run"
    /\ portScan.pcs[i] = "exit"
    /\ portScan' = [portScan EXCEPT !.wg = @ - 1, !.pcs[i] = "done"]
    /\ UNCHANGED notPortScan

\* Lines 488-489: wg.Wait() returns and the list is handed back.
PortsReturn ==
    /\ portScan.state = "run"
    /\ Len(portScan.pcs) = Len(portScan.ports)
    /\ portScan.wg = 0
    /\ portScan' = [portScan EXCEPT !.state = "ret", !.result = portScan.openPorts]
    /\ UNCHANGED notPortScan

PortStep ==
    /\ portScan.state = "run"
    /\ \E i \in 1..Len(portScan.pcs) :
          \/ PortDial(i)
          \/ PortLock(i)
          \/ PortAppend(i)
          \/ PortDone(i)

NextPorts ==
    \/ PortsEnter
    \/ PortSpawn
    \/ PortStep
    \/ PortsReturn

SpecPorts == InitPorts /\ [][NextPorts]_vars

(***************************************************************************)
(* getPortsToScan on its own (lines 493-513)                               *)
(***************************************************************************)
PortScanTypes == {"common", "full", "custom", "", "range"}

PolicyRules ==
    { [ScanType |-> "full", ScanPorts |-> sp, PortScanType |-> t,
       CustomPorts |-> c, ServiceDetection |-> FALSE, OSDetection |-> FALSE,
       ExcludeIPs |-> <<>>] :
        sp \in BOOLEAN, t \in PortScanTypes, c \in SeqsUpTo(PortUniverse, MaxPorts) }

InitPolicy ==
    /\ IdleScanner
    /\ rule \in PolicyRules
    /\ env \in [privileged : {TRUE}, hosts : {HostProfiles}, storeResults : {{"ok"}}]
    /\ query = NoQuery
    /\ hostCall = NoCall
    /\ portScan = [state |-> "policy"]

\* One call of getPortsToScan.
GetPortsCall ==
    /\ portScan.state = "policy"
    /\ portScan' = [state |-> "ports", ports |-> getPortsToScan(rule)]
    /\ UNCHANGED notPortScan

NextPolicy == GetPortsCall

SpecPolicy == InitPolicy /\ [][NextPolicy]_vars

(***************************************************************************)
(* guessOS on its own (lines 327-361)                                      *)
(***************************************************************************)
\* The ports the port rules look at, and one they do not.
GuessPorts == {22, 111, 2049, 135, 139, 445, 3389, 80}

\* What the service prober made of an open port: nothing (no entry), or an
\* entry with the service it identified.
GuessFindings == {"closed", "none", "SSH", "HTTP"}

ServiceEntry(port, service) ==
    [Port |-> port, Protocol |-> "tcp", Service |-> service, Banner |-> "", Version |-> ""]

\* The device records guessOS is called with: the services are those of
\* open ports.
InitGuess ==
    /\ IdleScanner
    /\ rule \in {r \in HostRules : r.ScanType = "full" /\ r.ScanPorts /\ r.PortScanType = "common"
                                    /\ r.ServiceDetection /\ r.OSDetection}
    /\ env \in [privileged : {TRUE}, hosts : {HostProfiles}, storeResults : {{"ok"}}]
    /\ query = NoQuery
    /\ portScan = NoCall
    /\ \E f \in [GuessPorts -> GuessFindings] :
          hostCall = [state     |-> "device",
                      OpenPorts |-> {p \in GuessPorts : f[p] # "closed"},
                      Services  |-> {ServiceEntry(p, f[p]) :
                                        p \in {q \in GuessPorts : f[q] \in {"SSH", "HTTP"}}}]

\* One call of guessOS.
GuessCall ==
    /\ hostCall.state = "device"
    /\ hostCall' = [state     |-> "guessed",
                    OpenPorts |-> hostCall.OpenPorts,
                    Services  |-> hostCall.Services,
                    guess     |-> guessOS(hostCall.OpenPorts, hostCall.Services)]
    /\ UNCHANGED <<networkID, rule, env, orch, ret, scan, updates, subnet, ipNet, ip,
                   ips, tasks, sem, wg, foundCount, scannedCount, scanHostCalls,
                   upsertCalls, mu, query, portScan>>

NextGuess == GuessCall

SpecGuess == InitGuess /\ [][NextGuess]_vars

(***************************************************************************)
(* Properties of the enumerator and the exclusion matcher                  *)
(***************************************************************************)
\* An address as the pair of its upper and lower 16 bits.
Hi(a) == a[1] * 256 + a[2]

Lo(a) == a[3] * 256 + a[4]

Before(a, b) == Hi(a) < Hi(b) \/ (Hi(a) = Hi(b) /\ Lo(a) < Lo(b))

HiLoAddr(hi, lo) == <<hi \div 256, hi % 256, lo \div 256, lo % 256>>

\* The text before and after the slash of a CIDR text.
CidrAddr(s) == Only({ParseIP(SubSeq(s, 1, slash - 1)) : slash \in {IndexFrom(s, "/", 1)}})

CidrOnes(s) == Only({dtoi(s, slash + 1, 0) : slash \in {IndexFrom(s, "/", 1)}})

\* Address a belongs to the block of prefix length p around address n.
InBlock(a, n, p) ==
    IF p >= 16
    THEN /\ Hi(a) = Hi(n)
         /\ Lo(a) \div Pow2(32 - p) = Lo(n) \div Pow2(32 - p)
    ELSE Hi(a) \div Pow2(16 - p) = Hi(n) \div Pow2(16 - p)

\* The addresses a block of prefix length p >= 16 around address n should
\* yield: base+1 .. base+size-2 for p <= 30, base .. base+size-1 for p >= 31.
UsableHosts(n, p) ==
    LET size == Pow2(32 - p)
        base == Lo(n) - (Lo(n) % size)
    IN  IF p <= 30
        THEN [k \in 1..(size - 2) |-> IPString(HiLoAddr(Hi(n), base + k))]
        ELSE [k \in 1..size |-> IPString(HiLoAddr(Hi(n), base + k - 1))]

\* C9: for every parseable IPv4 CIDR of prefix length p, generateIPList
\* returns, ascending and without duplicates, every address of the block
\* except the network and broadcast address when p <= 30 (2^(32-p) - 2
\* addresses), and every address of the block when p is 31 or 32.
C9_EnumeratesUsableHosts ==
    (orch = "spawn" /\ Positions(subnet, ":") = {}) =>
        \E p \in {CidrOnes(subnet)}, n \in {CidrAddr(subnet)} :
            /\ ips = UsableHosts(n, p)
            /\ p <= 30 => Len(ips) = Pow2(32 - p) - 2
            /\ p >= 31 => Len(ips) = Pow2(32 - p)
            /\ \A i \in 1..(Len(ips) - 1) : Before(ParseIP(ips[i]), ParseIP(ips[i + 1]))
            /\ \A i \in 1..Len(ips) : InBlock(ParseIP(ips[i]), n, p)

C9_Witness ==
    /\ orch = "spawn"
    /\ subnet = "192.168.1.0/24"
    /\ Len(ips) = 254
    /\ ips[1] = "192.168.1.1"
    /\ ips[254] = "192.168.1.254"

\* An address as a 128-bit one: an IPv4 address a.b.c.d is ::ffff:a.b.c.d.
As16(a) == IF Len(a) = IPv4len THEN <<0, 0, 0, 0, 0, 0, 0, 0, 0, 0, 255, 255>> \o a ELSE a

\* The prefix length of a CIDR text in the 128-bit space: an IPv4 block of
\* prefix length p is the block of prefix length 96 + p around ::ffff:a.b.c.d.
CidrBits(s) == IF Positions(s, ":") = {} THEN 96 + CidrOnes(s) ELSE CidrOnes(s)

\* The 128-bit addresses a and n agree on their first p bits.
SamePrefix(a, n, p) ==
    \A i \in 1..16 :
        LET free == IF 8 * i <= p THEN 0 ELSE IF 8 * (i - 1) >= p THEN 8 ELSE 8 * i - p
        IN  a[i] \div Pow2(free) = n[i] \div Pow2(free)

\* An entry matches an address: it is the same text, or a CIDR block that
\* contains the address.  An IPv4 address belongs to IPv4 blocks only (the
\* blocks inside ::ffff:0.0.0.0/96), however the address or the block is
\* written.
EntryCovers(entry, a) ==
    \/ entry = a
    \/ /\ ParseCIDR(entry).ok
       /\ ParseIP(a) # <<>>
       /\ SamePrefix(As16(ParseIP(a)), As16(CidrAddr(entry)), CidrBits(entry))
       /\ (CidrBits(entry) < 96) => Len(ParseIP(a)) = 16

\* C10: isExcluded(ip, list) is true exactly when some entry of the list is
\* string-equal to ip or parses as a CIDR block containing ip; malformed
\* entries never match and never cause an error; the order of the entries
\* does not matter.
C10_ExcludedIffSomeEntryCovers ==
    (query.state = "ret") =>
        /\ query.result \in BOOLEAN
        /\ query.result = (\E i \in 1..Len(query.list) : EntryCovers(query.list[i], query.ip))
        /\ query.reversed = query.result

C10_Witness ==
    /\ query.state = "ret"
    /\ query.list = <<"bogus", "10.0.1.0/24">>
    /\ query.ip = "10.0.1.77"
    /\ query.result

(***************************************************************************)
(* Properties of a run                                                     *)
(***************************************************************************)
Tasks == 1..Len(tasks)

\* The goroutines between semaphore acquisition and release.
InFlight ==
    {t \in Tasks : tasks[t].pc \notin {"wait", "wgDone", "done"}}

\* The run's input makes GetNetwork or the subnet's parsing fail.
LookupFails == networkID \notin DOMAIN StoredNetworks

SubnetUnparseable ==
    /\ ~LookupFails
    /\ LET s     == StoredNetworks[networkID]
           slash == IndexFrom(s, "/", 1)
       IN  \/ slash = 0
           \/ Len(SplitDots(SubSeq(s, 1, slash - 1))) # 4

Aborted == LookupFails \/ SubnetUnparseable

LastUpdate == updates[Len(updates)]

IsHundred(pct) == pct.num = 100 * pct.den

\* The ping of task t's host got no reply (or was not attempted, or failed).
Unresponsive(t) ==
    /\ tasks[t].host # NoHost
    /\ (~env.privileged \/ tasks[t].host.ping # "reply")

\* C1: at every instant at most 5 host goroutines are between semaphore
\* acquisition and release, whatever the number of candidate hosts.
C1_AtMostFiveInFlight == Cardinality(InFlight) <= 5 /\ sem = Cardinality(InFlight)

C1_Witness ==
    /\ Len(tasks) = 6
    /\ Cardinality(InFlight) = 5
    /\ \E t \in Tasks : tasks[t].pc = "wait"
    /\ \A t \in InFlight : tasks[t].pc \in {"scan", "found", "store"}

\* C2: for every run that is not aborted, when the final update with status
\* completed is issued, scanned_hosts = total_hosts and progress_percent = 100,
\* for any exclusion list and any per-host outcomes.
C2_CompletedMeansAllScanned ==
    (orch = "returned" /\ ~Aborted) =>
        /\ LastUpdate.Status = "completed"
        /\ LastUpdate.ScannedHosts = LastUpdate.TotalHosts
        /\ IsHundred(LastUpdate.ProgressPercent)

\* C3: if GetNetwork fails or the subnet does not parse, the run reports a
\* scan with status failed, a non-empty error message, completed_at set and
\* scanned_hosts = 0, returns an error, and never starts a host goroutine: no
\* scanHost call and no upsert happens.
C3_AbortReportsFailedAndStartsNothing ==
    Aborted =>
        /\ tasks = <<>>
        /\ scanHostCalls = {}
        /\ upsertCalls = {}
        /\ orch \in {"create", "getnet", "parse", "returned"}
        /\ (orch = "returned") =>
              /\ ret = "error"
              /\ scan.Status = "failed"
              /\ scan.ErrorMessage # ""
              /\ scan.CompletedAt
              /\ scan.ScannedHosts = 0
              /\ LastUpdate = scan

C3_Witness ==
    /\ orch = "returned"
    /\ networkID = "net-bad"
    /\ subnet = "10.0.0/24"
    /\ scan.Status = "failed"
    /\ scan.ErrorMessage = "generating IP list: invalid CIDR address: 10.0.0/24"
    /\ Len(updates) = 2

\* C4: when every call returns and the goroutines are scheduled fairly,
\* ScanNetwork eventually returns, and the last update it made carries a
\* terminal status.
C4_EventuallyReturnsTerminal ==
    <>[](/\ orch = "returned"
         /\ ret \in {"nil", "error"}
         /\ LastUpdate.Status \in {"completed", "failed"})

\* C5: a scan ends failed exactly when GetNetwork or the enumeration failed;
\* no per-host probe outcome or store failure makes it failed; ScanNetwork
\* returns an error exactly when the final status is failed.
C5_FailedIffFatal ==
    /\ scan.Status \in {"none", "running", "completed", "failed"}
    /\ (scan.Status = "failed") => Aborted
    /\ (orch = "returned") =>
          /\ scan.Status \in {"completed", "failed"}
          /\ (scan.Status = "failed") <=> Aborted
          /\ (ret = "error") <=> (scan.Status = "failed")
          /\ ret \in {"nil", "error"}

C5_Witness ==
    /\ orch = "returned"
    /\ scan.Status = "completed"
    /\ ret = "nil"
    /\ \E t \in Tasks : tasks[t].store = "err"
    /\ \E t \in Tasks : tasks[t].host # NoHost /\ tasks[t].host.ping = "error"

\* C6: if the upsert of a host's device fails, that host is still counted in
\* found_hosts and scanned_hosts, every other candidate host is still
\* processed and its device submitted to the store, and the run still ends
\* completed.
C6_StoreFailureIsNotFatal ==
    (orch = "returned" /\ \E t \in Tasks : tasks[t].store = "err") =>
        LET withDevice == {t \in Tasks : ~tasks[t].device.nil}
            probed     == {t \in Tasks : ~tasks[t].excluded}
        IN  /\ scan.Status = "completed"
            /\ Len(tasks) = Len(ips)
            /\ \A t \in Tasks : tasks[t].pc = "done" /\ tasks[t].ip = ips[t]
            /\ \A t \in Tasks : tasks[t].store = "err" => t \in withDevice
            /\ scan.FoundHosts = Cardinality(withDevice)
            /\ scan.ScannedHosts = Cardinality(probed)
            /\ scanHostCalls = {tasks[t].ip : t \in probed}
            /\ upsertCalls = {tasks[t].ip : t \in withDevice}

C6_Witness ==
    /\ orch = "returned"
    /\ scan.Status = "completed"
    /\ \E t, u \in Tasks : tasks[t].store = "err" /\ tasks[u].store = "ok"
    /\ scan.FoundHosts = 2
    /\ scan.ScannedHosts = 2

\* C7: status completed is set only when every started host goroutine has
\* finished, and once it is set no upsert happens and found_hosts,
\* scanned_hosts and progress_percent no longer change.
C7_CompletedOnlyAfterAllTasks ==
    [][ /\ (scan'.Status = "completed") =>
              /\ Len(tasks') = Len(ips')
              /\ \A t \in 1..Len(tasks') : tasks'[t].pc = "done"
        /\ (scan.Status = "completed") =>
              /\ upsertCalls' = upsertCalls
              /\ scanHostCalls' = scanHostCalls
              /\ scan'.FoundHosts = scan.FoundHosts
              /\ scan'.ScannedHosts = scan.ScannedHosts
              /\ scan'.ProgressPercent = scan.ProgressPercent
              /\ tasks' = tasks ]_vars

C7_Witness ==
    /\ scan.Status = "completed"
    /\ Len(tasks) = 2
    /\ upsertCalls # {}
    /\ scan.ScannedHosts = 2

\* C8: under scan_type quick, a host that is not excluded and whose ping got
\* no reply or failed yields no device: no upsert is made for its address
\* and found_hosts is not incremented for it.
C8_QuickDropsUnresponsiveHosts ==
    (rule.ScanType = "quick") =>
        /\ \A t \in Tasks :
              Unresponsive(t) =>
                  /\ tasks[t].device.nil
                  /\ tasks[t].ip \notin upsertCalls
                  /\ tasks[t].pc \in {"lockProgress", "progress", "recompute", "update", "updating",
                                      "release", "wgDone", "done"}
        /\ foundCount <= Cardinality({t \in Tasks : tasks[t].host # NoHost /\ ~Unresponsive(t)})
        /\ (scan.Status # "none") => scan.FoundHosts <= foundCount

C8_Witness ==
    /\ rule.ScanType = "quick"
    /\ orch = "returned"
    /\ \E t, u \in Tasks :
          /\ Unresponsive(t)
          /\ tasks[t].host.ping = "error"
          /\ ~Unresponsive(u)
          /\ tasks[u].ip \in upsertCalls
    /\ scan.FoundHosts = 1

(***************************************************************************)
(* Properties of a device record                                           *)
(***************************************************************************)
\* scanHost has returned a device.
Emitted == hostCall.state = "ret" /\ ~hostCall.device.nil

Bonus(present, points) == IF present THEN points ELSE 0

\* C11: for every device, calculateConfidence returns 50 + 20 (MAC address
\* present) + 15 (hostname present) + 10 (open ports present) + 5 (OS guess
\* present); the result lies in 50..100 and is 100 exactly when all four are
\* present.
C11_ConfidenceIsSumOfEvidence ==
    Emitted =>
        LET d   == hostCall.device
            all == d.MACAddress # "" /\ d.Hostname # "" /\ d.OpenPorts # {} /\ d.OSGuess # ""
        IN  /\ d.Confidence = 50 + Bonus(d.MACAddress # "", 20) + Bonus(d.Hostname # "", 15)
                                 + Bonus(d.OpenPorts # {}, 10) + Bonus(d.OSGuess # "", 5)
            /\ d.Confidence \in 50..100
            /\ (d.Confidence = 100) <=> all

C11_Witness ==
    /\ Emitted
    /\ hostCall.device.MACAddress # ""
    /\ hostCall.device.Hostname # ""
    /\ hostCall.device.OpenPorts # {}
    /\ hostCall.device.OSGuess # ""
    /\ hostCall.device.Confidence = 100

(***************************************************************************)
(* Properties of a port scan                                               *)
(***************************************************************************)
Elems(q) == {q[i] : i \in 1..Len(q)}

\* C12: ScanPorts returns only after every connection attempt has finished;
\* the returned list holds a port exactly when it is a candidate whose
\* attempt succeeded, and holds no port twice.
C12_OpenPortsExactAndDistinct ==
    (portScan.state = "ret") =>
        /\ Len(portScan.pcs) = Len(portScan.ports)
        /\ \A i \in 1..Len(portScan.pcs) : portScan.pcs[i] = "done"
        /\ Elems(portScan.result) = Elems(portScan.ports) \cap portScan.open
        /\ \A i, j \in 1..Len(portScan.result) :
              i # j => portScan.result[i] # portScan.result[j]

(***************************************************************************)
(* Properties of the progress reports                                      *)
(***************************************************************************)
\* The reports made by host goroutines so far: all but the two running
\* reports of the orchestrator and its final one.
HostReports ==
    Len(updates) - 2 - (IF scan.Status = "completed" THEN 1 ELSE 0)

\* The goroutines that have left the locked section of lines 163-169 with
\* the decision to report.
Reporters == {t \in Tasks : tasks[t].shouldUpdate}

\* C13: a host goroutine calls updateFunc exactly when the scanned_hosts
\* value its own increment produced is a multiple of 50 or equals
\* total_hosts; no other goroutine calls it, and each scanned_hosts value
\* triggers at most one report.
C13_ReportsOnlyAtMilestones ==
    [][ (orch' \in {"spawn", "complete", "returned"} /\ scan'.Status # "failed") =>
          /\ \A t \in Tasks :
                /\ (tasks[t].pc = "progress" /\ tasks'[t].pc # "progress") =>
                      /\ scan'.ScannedHosts = scan.ScannedHosts + 1
                      /\ tasks'[t].shouldUpdate <=>
                            \/ scan'.ScannedHosts % 50 = 0
                            \/ scan'.ScannedHosts = scan'.TotalHosts
                /\ (tasks[t].pc # "progress") =>
                      tasks'[t].shouldUpdate = tasks[t].shouldUpdate
                /\ (tasks'[t].pc \in {"update", "updating"}) => tasks'[t].shouldUpdate
                /\ (tasks[t].pc = "recompute" /\ tasks'[t].pc = "release") =>
                      ~tasks[t].shouldUpdate
                /\ tasks'[t].shouldUpdate =>
                      /\ tasks'[t].pc \in {"recompute", "update", "updating",
                                           "release", "wgDone", "done"}
                      /\ ~tasks'[t].excluded
          /\ Cardinality(Reporters') =
                Cardinality({k \in 1..scan'.ScannedHosts :
                                k % 50 = 0 \/ k = scan'.TotalHosts})
          /\ HostReports' =
                Cardinality({t \in Reporters' :
                                tasks'[t].pc \in {"release", "wgDone", "done"}}) ]_vars

\* The run on net-26 with ten excluded addresses has returned: the goroutine
\* that counted host 50 has reported, the two after it have not.
C13_Witness ==
    /\ networkID = "net-26"
    /\ orch = "returned"
    /\ scan.ScannedHosts = 52
    /\ Cardinality({t \in Reporters : t > MilestoneDone}) = 1
    /\ Cardinality({t \in Tasks \ Reporters : t > MilestoneDone}) = 2
    /\ HostReports = 1

(***************************************************************************)
(* Properties of the counters, the mutex and the reports                   *)
(***************************************************************************)
\* C14: throughout a run scanned_hosts never decreases, changes only by
\* increments of exactly 1, never exceeds total_hosts; progress_percent stays
\* within 0..100; every increment is followed, before the goroutine that
\* made it releases the mutex, by the recomputation of progress_percent, so
\* that progress_percent equals scanned_hosts / total_hosts * 100 whenever no
\* goroutine is between its increment and its recomputation.
C14_ScannedHostsCountsUpToTotal ==
    [][ (scan.Status # "none") =>
            /\ scan'.ScannedHosts \in {scan.ScannedHosts, scan.ScannedHosts + 1}
            /\ scan'.ScannedHosts <= scan'.TotalHosts
            /\ scan'.ProgressPercent.den > 0
            /\ scan'.ProgressPercent.num >= 0
            /\ scan'.ProgressPercent.num <= 100 * scan'.ProgressPercent.den
            /\ (scan'.ScannedHosts = scan.ScannedHosts + 1) =>
                  /\ mu' \in 1..Len(tasks')
                  /\ tasks'[mu'].pc = "recompute"
            /\ \A t \in 1..Len(tasks') : (tasks'[t].pc = "recompute") => mu' = t
            /\ (\A t \in 1..Len(tasks') : tasks'[t].pc # "recompute") =>
                  scan'.ProgressPercent.num * scan'.TotalHosts =
                      scan'.ScannedHosts * 100 * scan'.ProgressPercent.den ]_vars

\* The second of two hosts has been counted and the percentage recomputed.
C14_Witness ==
    /\ scan.Status = "running"
    /\ scan.TotalHosts = 2
    /\ scan.ScannedHosts = 2
    /\ scan.ProgressPercent = [num |-> 200, den |-> 2]
    /\ \E t \in Tasks : tasks[t].pc = "update"
    /\ \E t \in Tasks : tasks[t].pc = "done" /\ ~tasks[t].excluded

\* The goroutines that are inside scanHost, the store upsert or updateFunc.
InIO == {t \in Tasks : tasks[t].pc \in {"scan", "store", "update", "updating"}}

\* C15: a host goroutine changes found_hosts, scanned_hosts and
\* progress_percent only while it holds the mutex, and no goroutine holds the
\* mutex while it is inside scanHost, the store upsert or updateFunc.
C15_CountersUnderMutexIOOutside ==
    [][ /\ (/\ scan.Status # "none"
            /\ \/ scan'.FoundHosts # scan.FoundHosts
               \/ scan'.ScannedHosts # scan.ScannedHosts
               \/ scan'.ProgressPercent # scan.ProgressPercent
               \/ foundCount' # foundCount) =>
              /\ mu \in Tasks
              /\ tasks[mu].pc \in {"found", "progress", "recompute"}
              /\ tasks'[mu].pc # tasks[mu].pc
              /\ \A t \in Tasks \ {mu} : tasks'[t] = tasks[t]
        /\ mu \notin InIO
        /\ mu' \notin InIO' ]_vars

C15_Witness ==
    /\ mu \in Tasks
    /\ tasks[mu].pc = "progress"
    /\ \E t \in Tasks : tasks[t].pc = "store"
    /\ scan.FoundHosts = 2

\* The report kinds.
Terminal(sc) == sc.Status \in {"completed", "failed"}

\* C16: the statuses of a run's reports are one or more "running" followed
\* by one terminal status (completed or failed), which is there once
\* ScanNetwork has returned; the first report is made before the network
\* lookup with total_hosts = 0; after the terminal report no report is made
\* and the status does not change.
C16_RunningThenOneTerminal ==
    [][ /\ (orch' = "create") <=> (updates' = <<>>)
        /\ (orch' = "getnet") => Len(updates') = 1
        /\ (updates' # <<>>) =>
              /\ updates'[1].Status = "running"
              /\ updates'[1].TotalHosts = 0
              /\ \A i \in 1..(Len(updates') - 1) : updates'[i].Status = "running"
              /\ updates'[Len(updates')].Status \in {"running", "completed", "failed"}
              /\ Terminal(updates'[Len(updates')]) <=> (orch' = "returned")
        /\ (updates # <<>> /\ Terminal(LastUpdate)) =>
              /\ updates' = updates
              /\ scan' = scan ]_vars

C16_Witness ==
    /\ orch = "returned"
    /\ Len(updates) = 4
    /\ updates[3].Status = "running"
    /\ updates[3].ScannedHosts = 2
    /\ updates[4].Status = "completed"

(***************************************************************************)
(* Properties of the pipeline of one host                                  *)
(***************************************************************************)
\* The host of the call answered the ping of a scanner allowed to send it.
PingSucceeded == env.privileged /\ hostCall.host.ping = "reply"

\* The candidate ports of the rule that the host accepts connections on.
ExpectedOpen == Elems(getPortsToScan(rule)) \cap hostCall.host.open

\* C17: an unprivileged ping scanner reports every host as not alive, without
\* error and without probing; under scan_type full or deep the pipeline
\* still runs the port stage when scan_ports is set, and emits a device that
\* is online exactly when at least one port opened.
C17_UnprivilegedFallsBackToPorts ==
    (hostCall.state = "ret" /\ ~env.privileged /\ rule.ScanType \in {"full", "deep"}) =>
        /\ Ping(env.privileged, hostCall.host) = [alive |-> FALSE, err |-> FALSE]
        /\ ~hostCall.device.nil
        /\ rule.ScanPorts => hostCall.device.OpenPorts = ExpectedOpen
        /\ ~rule.ScanPorts => hostCall.device.OpenPorts = {}
        /\ (hostCall.device.Status = "online") <=> (hostCall.device.OpenPorts # {})
        /\ hostCall.device.Status \in {"online", "unknown"}

C17_Witness ==
    /\ hostCall.state = "ret"
    /\ ~env.privileged
    /\ rule.ScanType = "deep"
    /\ hostCall.host.ping = "reply"
    /\ hostCall.device.OpenPorts = {80, 9999}
    /\ hostCall.device.Status = "online"

\* An entry of the rule's exclusion list covers the address.
Covered(a) == \E i \in 1..Len(rule.ExcludeIPs) : EntryCovers(rule.ExcludeIPs[i], a)

\* C18: an address matched by the exclusion list is counted in total_hosts
\* (the enumeration does not filter), but scanHost is never called for it, it
\* is never upserted, and it never increments found_hosts.
C18_ExcludedCountedButNeverProbed ==
    (orch \in {"spawn", "complete", "returned"} /\ ~Aborted) =>
        /\ ips = UsableHosts(CidrAddr(subnet), CidrOnes(subnet))
        /\ scan.TotalHosts = Len(ips)
        /\ \A t \in Tasks :
              Covered(tasks[t].ip) =>
                  /\ tasks[t].ip \notin scanHostCalls
                  /\ tasks[t].ip \notin upsertCalls
                  /\ tasks[t].device.nil
                  /\ tasks[t].pc \in {"wait", "release", "wgDone", "done"}
        /\ foundCount <= Cardinality({t \in Tasks : ~Covered(tasks[t].ip) /\ ~tasks[t].device.nil})
        /\ scan.FoundHosts <= foundCount

C18_Witness ==
    /\ orch = "returned"
    /\ rule.ExcludeIPs = <<"10.0.0.9">>
    /\ scan.TotalHosts = 2
    /\ scan.FoundHosts = 1
    /\ scanHostCalls = {"10.0.0.10"}
    /\ upsertCalls = {"10.0.0.10"}
    /\ \E t \in Tasks : tasks[t].ip = "10.0.0.9" /\ tasks[t].pc = "done"

\* C19: an emitted device is online exactly when the ping succeeded or at
\* least one open port was found, and unknown otherwise; no other status is
\* emitted.
C19_OnlineIffPingOrPort ==
    Emitted =>
        /\ hostCall.device.Status \in {"online", "unknown"}
        /\ (hostCall.device.Status = "online") <=>
              (PingSucceeded \/ hostCall.device.OpenPorts # {})
        /\ hostCall.device.OpenPorts \in {{}, ExpectedOpen}

C19_Witness ==
    /\ Emitted
    /\ ~PingSucceeded
    /\ hostCall.host.ping = "error"
    /\ hostCall.device.OpenPorts = {22}
    /\ hostCall.device.Status = "online"

\* C20: in an emitted device, a MAC address or hostname is present only if
\* the ping succeeded; open ports only if scan_type is not quick and
\* scan_ports is set; services only if service_detection is set and open
\* ports are present, each service on one of the open ports with protocol
\* tcp.
C20_EvidenceOnlyFromAllowedStages ==
    Emitted =>
        LET d == hostCall.device
        IN  /\ (d.MACAddress # "" \/ d.Hostname # "") => PingSucceeded
            /\ (d.OpenPorts # {}) => (rule.ScanType # "quick" /\ rule.ScanPorts)
            /\ (d.Services # {}) => (rule.ServiceDetection /\ d.OpenPorts # {})
            /\ \A svc \in d.Services : svc.Port \in d.OpenPorts /\ svc.Protocol = "tcp"

C20_Witness ==
    /\ Emitted
    /\ hostCall.device.MACAddress # ""
    /\ hostCall.device.Hostname = "host.lan."
    /\ hostCall.device.OpenPorts = {80, 9999}
    /\ Cardinality(hostCall.device.Services) = 2

(***************************************************************************)
(* Port policy                                                             *)
(***************************************************************************)
\* C21: getPortsToScan returns no port when scan_ports is false; otherwise
\* the rule's custom list when the type is "custom" and the list is not
\* empty, and the fixed list of 20 common ports in every other case; under
\* "full" no port outside the common list is returned.
C21_PortPolicy ==
    portScan.state = "ports" =>
        /\ ~rule.ScanPorts => portScan.ports = <<>>
        /\ (rule.ScanPorts /\ rule.PortScanType = "custom" /\ rule.CustomPorts # <<>>)
              => portScan.ports = rule.CustomPorts
        /\ (rule.ScanPorts /\ (rule.PortScanType # "custom" \/ rule.CustomPorts = <<>>))
              => /\ Len(portScan.ports) = 20
                 /\ Elems(portScan.ports) =
                      {21, 22, 23, 25, 53, 80, 110, 111, 135, 139,
                       143, 443, 445, 993, 995, 1723, 3306, 3389, 5900, 8080}
                 /\ Cardinality(Elems(portScan.ports)) = 20
        /\ (rule.ScanPorts /\ rule.PortScanType = "full")
              => 9999 \notin Elems(portScan.ports)

\* A "full" rule that lists port 9999 got the common list.
C21_Witness ==
    /\ portScan.state = "ports"
    /\ rule.ScanPorts
    /\ rule.PortScanType = "full"
    /\ 9999 \in Elems(rule.CustomPorts)
    /\ Len(portScan.ports) = 20

(***************************************************************************)
(* Properties of the OS guess                                              *)
(***************************************************************************)
WindowsPorts == {135, 139, 445, 3389}

LinuxPorts == {22, 111, 2049}

HasWindows == hostCall.OpenPorts \cap WindowsPorts # {}

HasLinux == hostCall.OpenPorts \cap LinuxPorts # {}

HasSSH == \E svc \in hostCall.Services : svc.Service = "SSH"

\* C22: Windows ports without Unix ports give Windows/Windows, Unix ports
\* without Windows ports give Linux/Unix; an identified SSH service gives
\* "Linux/Unix"/"Unix" when the ports set no family, and changes nothing
\* when the ports set the family to Windows or Unix.
C22_PortRulesThenSSH ==
    hostCall.state = "guessed" =>
        /\ (HasWindows /\ ~HasLinux)
              => hostCall.guess = [OS |-> "Windows", Family |-> "Windows"]
        /\ (HasLinux /\ ~HasWindows)
              => hostCall.guess = [OS |-> "Linux", Family |-> "Unix"]
        /\ (HasSSH /\ ~HasWindows /\ ~HasLinux)
              => hostCall.guess = [OS |-> "Linux/Unix", Family |-> "Unix"]
        /\ hostCall.guess.OS = "Linux/Unix"
              => /\ HasSSH
                 /\ hostCall.OpenPorts \cap {22, 111} = {}
                 /\ HasWindows = HasLinux
        /\ hostCall.guess.Family \in {"Windows", "Unix", "Unknown"}
        /\ (hostCall.guess.Family = "Unknown")
              => (hostCall.guess.OS = "Unknown" /\ ~HasSSH)

\* A device with a Windows port and an SSH service was guessed Windows, and
\* one with an SSH service on a port the rules do not know was guessed
\* Linux/Unix.
C22_Witness ==
    /\ hostCall.state = "guessed"
    /\ \/ /\ hostCall.OpenPorts = {445}
          /\ HasSSH
          /\ hostCall.guess.Family = "Windows"
       \/ /\ hostCall.OpenPorts = {80}
          /\ HasSSH
          /\ hostCall.guess.OS = "Linux/Unix"

\* C23: a device whose open ports are 22 and/or 111 and no other port of
\* the rules is guessed "Unix-like" with family "Unix".
C23_NarrowUnixSetIsUnixLike ==
    (/\ hostCall.state = "guessed"
     /\ hostCall.OpenPorts \cap {22, 111} # {}
     /\ hostCall.OpenPorts \cap (WindowsPorts \cup {2049}) = {})
        => hostCall.guess = [OS |-> "Unix-like", Family |-> "Unix"]

(***************************************************************************)
(* Properties of the service prober                                        *)
(***************************************************************************)
\* C24: the entry of a port that was connected to and sent no banner before
\* the read deadline names the service of the static table for the port,
\* and "unknown" when the table has no entry for it; it is never empty.
C24_NoBannerFallsBackToTableOrUnknown ==
    (hostCall.state = "ret" /\ ~hostCall.device.nil) =>
        \A svc \in hostCall.device.Services :
            ~Answer(hostCall.host, svc.Port).line =>
                /\ svc.Service # ""
                /\ svc.Service = (CASE svc.Port = 22   -> "SSH"
                                    [] svc.Port = 80   -> "HTTP"
                                    [] svc.Port = 445  -> "unknown"
                                    [] svc.Port = 2222 -> "unknown"
                                    [] svc.Port = 3389 -> "RDP"
                                    [] svc.Port = 9999 -> "unknown")

(***************************************************************************)
(* Termination of the enumerator                                           *)
(***************************************************************************)
\* C25: generateIPList returns for every subnet that parses, the blocks
\* that end at 255.255.255.255 and the block of prefix 0 included.
C25_GenerateIPListTerminates ==
    <>(orch \in {"spawn", "returned"})

(***************************************************************************)
(* Properties of updateFunc calls made by host goroutines                  *)
(***************************************************************************)
\* The goroutines that are inside updateFunc.
Updating == {t \in Tasks : tasks[t].pc = "updating"}

\* The goroutines that have left the locked section with a milestone and
\* whose updateFunc call has not returned yet.
Reporting == {t \in Tasks : tasks[t].pc \in {"update", "updating"}}

\* C26: from the moment a host goroutine has left the locked section with a
\* milestone until its updateFunc call returns, the record holds the
\* scanned_hosts value that triggered the report (a multiple of 50, or
\* total_hosts) with its percentage, that is what the callback reads, and no
\* step changes the record's counters.
C26_CallbackReadsItsMilestone ==
    [][ \A t \in Reporting :
            /\ scan.ScannedHosts % 50 = 0 \/ scan.ScannedHosts = scan.TotalHosts
            /\ ("ScannedHosts" \in tasks[t].read) =>
                  tasks[t].seen.ScannedHosts = scan.ScannedHosts
            /\ ("ProgressPercent" \in tasks[t].read) =>
                  tasks[t].seen.ProgressPercent = scan.ProgressPercent
            /\ scan.ProgressPercent.num * scan.TotalHosts =
                  scan.ScannedHosts * 100 * scan.ProgressPercent.den
            /\ scan'.ScannedHosts = scan.ScannedHosts
            /\ scan'.FoundHosts = scan.FoundHosts
            /\ scan'.ProgressPercent = scan.ProgressPercent ]_vars

\* C27: at most one updateFunc call is in progress at any instant.
C27_CallbacksNeverOverlap == Cardinality(Updating) <= 1

\* C27, amended: calls of updateFunc by host goroutines can overlap each
\* other; each is made by a goroutine that holds a slot of the pool, and
\* none is in progress when ScanNetwork itself reports (before the
\* goroutines are started and after wg.Wait() has returned).
C27_OnlyOrchestratorCallsAreExclusive ==
    /\ Cardinality(Updating) <= sem
    /\ sem <= maxConcurrent
    /\ (orch # "spawn") => Updating = {}

\* The goroutine of the 50th host and the one of the last host are inside
\* updateFunc at once.
C27_Witness ==
    /\ Cardinality(Updating) = 2
    /\ ProgressEvery \in Updating
    /\ \E u \in Updating : u > CallbackDone
    /\ scan.ScannedHosts = scan.TotalHosts
    /\ scan.TotalHosts = 62

(***************************************************************************)
(* found_hosts against scanned_hosts                                       *)
(***************************************************************************)
\* C28: at every instant found_hosts exceeds scanned_hosts by at most 5, the
\* size of the pool, and by at most the number of pool slots in use; when
\* the run has completed, found_hosts <= scanned_hosts <= total_hosts.
C28_FoundLeadsScannedByAtMostPool ==
    (scan.Status \in {"running", "completed"}) =>
        /\ scan.FoundHosts - scan.ScannedHosts <= 5
        /\ scan.FoundHosts - scan.ScannedHosts <= sem
        /\ (scan.Status = "completed") =>
              /\ scan.FoundHosts <= scan.ScannedHosts
              /\ scan.ScannedHosts <= scan.TotalHosts

\* Five goroutines have counted their device and none has counted its host,
\* while the goroutine of a sixth host, which is not excluded and will
\* produce a device too, waits for a slot of the pool.
C28_Witness ==
    /\ scan.Status = "running"
    /\ rule.ExcludeIPs = <<>>
    /\ Len(tasks) = 6
    /\ scan.FoundHosts = 5
    /\ scan.ScannedHosts = 0
    /\ Cardinality({t \in Tasks : tasks[t].pc \in {"store", "lockProgress", "progress"}}) = 5
    /\ \E t \in Tasks : tasks[t].pc = "wait"
    /\ sem = 5

(***************************************************************************)
(* Runs of a scan type other than quick                                    *)
(***************************************************************************)
\* C29: under a scan type other than quick every candidate address that is
\* not excluded gets a device record, also when the host neither answered
\* the ping nor has an open port (its status is then unknown); when the run
\* has completed, found_hosts is the number of those addresses and an
\* upsert was attempted for each of them.
C29_NonQuickEmitsEveryCandidate ==
    (rule.ScanType # "quick" /\ orch \in {"spawn", "complete", "returned"} /\ ~Aborted) =>
        /\ \A t \in Tasks :
              (tasks[t].pc \notin {"wait", "lockCount", "count", "scan"}
                 /\ ~Covered(tasks[t].ip)) =>
                  /\ ~tasks[t].device.nil
                  /\ tasks[t].device.IP = tasks[t].ip
                  /\ (tasks[t].host.ping # "reply" \/ ~env.privileged)
                        /\ tasks[t].device.OpenPorts = {}
                     => tasks[t].device.Status = "unknown"
        /\ (scan.Status = "completed") =>
              /\ scan.FoundHosts = Cardinality({i \in 1..Len(ips) : ~Covered(ips[i])})
              /\ upsertCalls = {ips[i] : i \in {j \in 1..Len(ips) : ~Covered(ips[j])}}
              /\ \A t \in Tasks : ~Covered(tasks[t].ip) => tasks[t].store \in {"ok", "err"}

\* A completed deep scan of two hosts, neither excluded; one of them did not
\* answer the ping and had no open port, and both were counted and upserted.
C29_Witness ==
    /\ rule.ScanType = "deep"
    /\ scan.Status = "completed"
    /\ scan.TotalHosts = 2
    /\ scan.FoundHosts = 2
    /\ Cardinality(upsertCalls) = 2
    /\ \E t \in Tasks : /\ tasks[t].host.ping = "silent"
                         /\ tasks[t].device.OpenPorts = {}
                         /\ tasks[t].device.Status = "unknown"

(***************************************************************************)
(* OS detection and the confidence score                                   *)
(***************************************************************************)
\* C30: with os_detection enabled every emitted device has a non-empty
\* os_guess, "Unknown" when no port rule and no SSH service applies, and a
\* confidence of at least 55; with os_detection disabled os_guess is empty
\* and the confidence is at most 95.
C30_OSDetectionBoundsConfidence ==
    Emitted =>
        /\ rule.OSDetection =>
              /\ hostCall.device.OSGuess # ""
              /\ hostCall.device.Confidence >= 55
              /\ (/\ hostCall.device.OpenPorts \cap {135, 139, 445, 3389, 22, 111, 2049} = {}
                  /\ \A svc \in hostCall.device.Services : svc.Service # "SSH")
                    => /\ hostCall.device.OSGuess = "Unknown"
                       /\ hostCall.device.OSFamily = "Unknown"
        /\ ~rule.OSDetection =>
              /\ hostCall.device.OSGuess = ""
              /\ hostCall.device.OSFamily = ""
              /\ hostCall.device.Confidence <= 95

\* A device with no evidence but the "Unknown" guess scores 55, and one with
\* every other evidence and os_detection disabled scores 95.
C30_Witness ==
    /\ Emitted
    /\ \/ /\ rule.OSDetection
          /\ hostCall.device.OSGuess = "Unknown"
          /\ hostCall.device.MACAddress = ""
          /\ hostCall.device.Hostname = ""
          /\ hostCall.device.OpenPorts = {}
          /\ hostCall.device.Confidence = 55
       \/ /\ ~rule.OSDetection
          /\ hostCall.device.MACAddress # ""
          /\ hostCall.device.Hostname # ""
          /\ hostCall.device.OpenPorts # {}
          /\ hostCall.device.Confidence = 95

====
